------------------------------ MODULE RowStore ------------------------------
(***************************************************************************)
(* The stores whose rows carry no version: parameters and roles            *)
(* (model/gen__param_store_*.go, model/gen__role_store_*.go), with their   *)
(* handlers, on PostgreSQL at READ COMMITTED.  Written with a parameter's  *)
(* unique key; a role's is its name.  Find is the same for all three       *)
(* tables: for the users' the key is the e-mail, kept in lower case (how   *)
(* users are edited is in UserStore).                                      *)
(*                                                                         *)
(* As in UserStore a statement's effect stays in tx[r] until COMMIT, and a *)
(* request holds the lock of the row it has written until its transaction  *)
(* ends.  The columns of the unique key are one column, so are the others; *)
(* the modification columns, written each time, are left out, and so are   *)
(* the rows that refer to a role (they are in UserStore).                  *)
(***************************************************************************)
EXTENDS Filters, FiniteSets

CONSTANTS Requests,     \* concurrent HTTP requests (goroutines)
          Codes,        \* the unique key: (code, group_name), or name
          Values,       \* the other columns
          MaxIds,       \* bound: ids drawn from the sequence
          Limit,        \* of a Find
          FilterLists,  \* its filters
          Nil

Ids == 1..MaxIds
Row == [code : Codes, value : Values]
Columns == {"code", "value"}
Request == [op : {"create", "update", "delete"}, id : Ids, fields : SUBSET Columns,
            row : Row \cup {Nil}]
(* A Find between its queries: its filters, where it starts, how many rows   *)
(* it has counted and, as history, whether a transaction has committed       *)
(* since.                                                                    *)
Search == [filter : FilterLists, offset : 0..MaxIds, total : 0..MaxIds, moved : BOOLEAN]

ASSUME BoundsAssumption == MaxIds \in Nat \ {0} /\ Limit \in Nat \ {0}
ASSUME NilAssumption ==
  Nil \notin Row /\ Nil \notin Request /\ Nil \notin Search
(* findFilters of this table: the key, of kind "lower" for the users.        *)
ASSUME ColumnsAssumption ==
  /\ Codes \cup Values \subseteq Texts /\ \A c \in Codes : Lower[c] \in Codes
  /\ DOMAIN Kind = {"id", "code", "value"}
  /\ Kind["id"] = "int" /\ Kind["code"] \in {"text", "lower"} /\ Kind["value"] = "text"

VARIABLES
  rows,      \* the table, committed: id -> row or Nil
  nextId,    \* its sequence
  at,        \* where each request is
  req,       \* the arguments of the store call in progress
  tx,        \* the row that call has written and not committed, or Nil
  search     \* the Find in progress

vars == <<rows, nextId, at, req, tx, search>>

Places == {"idle", "begun", "wrote", "leaked", "counted"}

TypeOK ==
  /\ rows \in [Ids -> Row \cup {Nil}]
  /\ nextId \in 1..(MaxIds + 1)
  /\ at \in [Requests -> Places]
  /\ req \in [Requests -> Request \cup {Nil}]
  /\ tx \in [Requests -> Row \cup {Nil}]
  /\ search \in [Requests -> Search \cup {Nil}]

Init ==
  /\ rows = [u \in Ids |-> Nil]
  /\ nextId = 1
  /\ at = [r \in Requests |-> "idle"]
  /\ req = [r \in Requests |-> Nil]
  /\ tx = [r \in Requests |-> Nil]
  /\ search = [r \in Requests |-> Nil]

-----------------------------------------------------------------------------
(* Locks and the unique index. *)

Wrote(r) == at[r] = "wrote"

NeverHolds(r, u) == FALSE
HoldsRow(r, u) == Wrote(r) /\ req[r].id = u
Unlocked(r, u) == \A q \in Requests \ {r} : ~ HoldsRow(q, u)

(* An uncommitted row with the key, or one whose key is being changed, makes *)
(* the statement wait.                                                       *)
CodeSettled(r, c) ==
  \A q \in Requests \ {r} :
    Wrote(q) => /\ tx[q] # Nil => tx[q].code # c
                /\ rows[req[q].id] # Nil => rows[req[q].id].code # c
NeverTaken(u, c) == FALSE
CodeTaken(u, c) == \E v \in Ids \ {u} : rows[v] # Nil /\ rows[v].code = c

-----------------------------------------------------------------------------
(* The calls begin. *)

Begin(r, call) ==
  /\ at[r] = "idle"
  /\ req' = [req EXCEPT ![r] = call]
  /\ at' = [at EXCEPT ![r] = "begun"]
  /\ UNCHANGED <<rows, tx, search>>

(* strings.ToLower of a user's e-mail comes first in Create and Update. *)
AsGiven(row) == row
Stored(row) == [code |-> Folded("code", row.code), value |-> row.value]

(* The id is drawn by the INSERT; drawn here it is just as unique. *)
BeginCreate(r) ==
  /\ nextId \in Ids
  /\ nextId' = nextId + 1
  /\ \E row \in Row :
       Begin(r, [op |-> "create", id |-> nextId, fields |-> {}, row |-> Stored(row)])

(* PATCH: the fields and their values are the client's. *)
BeginUpdate(r, u) ==
  /\ \E F \in SUBSET Columns, row \in Row :
       Begin(r, [op |-> "update", id |-> u, fields |-> F, row |-> Stored(row)])
  /\ UNCHANGED nextId

BeginDelete(r, u) ==
  /\ Begin(r, [op |-> "delete", id |-> u, fields |-> {}, row |-> Nil])
  /\ UNCHANGED nextId

-----------------------------------------------------------------------------
(* The one statement of each call. *)

Write(r, row) ==
  /\ tx' = [tx EXCEPT ![r] = row]
  /\ at' = [at EXCEPT ![r] = "wrote"]
  /\ UNCHANGED <<rows, nextId, req, search>>

Insert(r) ==
  /\ at[r] = "begun" /\ req[r].op = "create"
  /\ CodeSettled(r, req[r].row.code)
  /\ ~ CodeTaken(req[r].id, req[r].row.code)
  /\ Write(r, req[r].row)

(* WHERE id = $: the statement waits for the row's lock and then sees the    *)
(* row as it was committed last; SET names the fields of the call.           *)
Present(r) == rows[req[r].id] # Nil

WholeRow(r) == req[r].row
UpdatedRow(r) ==
  LET old == rows[req[r].id]
      new == req[r].row
  IN [code |-> IF "code" \in req[r].fields THEN new.code ELSE old.code,
      value |-> IF "value" \in req[r].fields THEN new.value ELSE old.value]

Update(r) ==
  /\ at[r] = "begun" /\ req[r].op = "update"
  /\ Unlocked(r, req[r].id)
  /\ Present(r)
  /\ CodeSettled(r, UpdatedRow(r).code)
  /\ ~ CodeTaken(req[r].id, UpdatedRow(r).code)
  /\ Write(r, UpdatedRow(r))

Delete(r) ==
  /\ at[r] = "begun" /\ req[r].op = "delete"
  /\ Unlocked(r, req[r].id)
  /\ Present(r)
  /\ Write(r, Nil)

-----------------------------------------------------------------------------
(* How a call ends. *)

Finish(r) ==
  /\ at' = [at EXCEPT ![r] = "idle"]
  /\ req' = [req EXCEPT ![r] = Nil]
  /\ tx' = [tx EXCEPT ![r] = Nil]
  /\ UNCHANGED nextId

Moved(s) == IF s = Nil THEN Nil
            ELSE [filter |-> s.filter, offset |-> s.offset, total |-> s.total, moved |-> TRUE]

Commit(r) ==
  /\ Wrote(r)
  /\ rows' = [rows EXCEPT ![req[r].id] = tx[r]]
  /\ search' = [q \in Requests |-> Moved(search[q])]
  /\ Finish(r)

(* No row with that id, or a unique key that exists. *)
Refused(r) ==
  /\ at[r] = "begun"
  /\ \/ /\ req[r].op = "create"
        /\ CodeSettled(r, req[r].row.code) /\ CodeTaken(req[r].id, req[r].row.code)
     \/ req[r].op = "update" /\ Unlocked(r, req[r].id) /\ ~ Present(r)
     \/ /\ req[r].op = "update" /\ Unlocked(r, req[r].id) /\ Present(r)
        /\ CodeSettled(r, UpdatedRow(r).code) /\ CodeTaken(req[r].id, UpdatedRow(r).code)

Rollback(r) ==
  /\ Refused(r)
  /\ Finish(r)
  /\ UNCHANGED <<rows, search>>

(* The request is gone before COMMIT: cancelled, disconnected, a deadlock    *)
(* victim, or its answer waited for by nobody.                               *)
Abort(r) ==
  /\ at[r] \in {"begun", "wrote"}
  /\ Finish(r)
  /\ UNCHANGED <<rows, search>>

(* As in the user store a Delete that affects no row leaves its transaction  *)
(* open until the request's context is cancelled.                            *)
LeakDelete(r) ==
  /\ at[r] = "begun" /\ req[r].op = "delete"
  /\ Unlocked(r, req[r].id)
  /\ ~ Present(r)
  /\ at' = [at EXCEPT ![r] = "leaked"]
  /\ UNCHANGED <<rows, nextId, req, tx, search>>

ReleaseLeaked(r) ==
  /\ at[r] = "leaked"
  /\ Finish(r)
  /\ UNCHANGED <<rows, search>>

-----------------------------------------------------------------------------
(* Find: COUNT and SELECT with the same WHERE, outside any transaction. *)

Cells(u) == [id |-> u, code |-> rows[u].code, value |-> rows[u].value]
Matching(f) == {u \in Ids : rows[u] # Nil /\ Selects(f, Cells(u))}

CountAll(f) == Cardinality({u \in Ids : rows[u] # Nil})
Counted(f) == Cardinality(Matching(f))

(* A list that is not accepted ends the call before any query.               *)
Count(r) ==
  /\ at[r] = "idle"
  /\ \E f \in FilterLists, offset \in 0..MaxIds :
       Accepted(f) /\ search' = [search EXCEPT ![r] =
         [filter |-> f, offset |-> offset, total |-> Counted(f), moved |-> FALSE]]
  /\ at' = [at EXCEPT ![r] = "counted"]
  /\ UNCHANGED <<rows, nextId, req, tx>>

Smaller(m, n) == IF m < n THEN m ELSE n
Left(n, offset) == IF n < offset THEN 0 ELSE n - offset

(* The answer is given and the request is over. *)
Found(r) ==
  /\ at' = [at EXCEPT ![r] = "idle"]
  /\ search' = [search EXCEPT ![r] = Nil]
  /\ UNCHANGED <<rows, nextId, req, tx>>

(* LIMIT and OFFSET cut out so many of the matching rows; which ones, ORDER  *)
(* BY decides.                                                               *)
List(r, S) ==
  /\ at[r] = "counted"
  /\ LET matching == Matching(search[r].filter)
     IN /\ S \subseteq matching
        /\ Cardinality(S) = Smaller(Limit, Left(Cardinality(matching), search[r].offset))
  /\ Found(r)

(* The field to sort by is unknown or the query fails; or the result set     *)
(* breaks off, and what came of it is answered like a page, because the loop *)
(* over rows.Next does not ask for its error.                                *)
NoList(r) ==
  /\ at[r] = "counted"
  /\ Found(r)

-----------------------------------------------------------------------------

Next ==
  \E r \in Requests :
    \/ BeginCreate(r)
    \/ \E u \in Ids : BeginUpdate(r, u) \/ BeginDelete(r, u)
    \/ Insert(r) \/ Update(r) \/ Delete(r)
    \/ Commit(r) \/ Rollback(r) \/ Abort(r) \/ LeakDelete(r) \/ ReleaseLeaked(r)
    \/ Count(r) \/ NoList(r) \/ \E S \in SUBSET Ids : List(r, S)

Spec == Init /\ [][Next]_vars

-----------------------------------------------------------------------------
(* Properties. *)

(* Two rows never share their key, although a call looks for it among rows   *)
(* that other transactions are inserting, renaming and deleting.             *)
UniqueCodes ==
  \A u, v \in Ids :
    u # v /\ rows[u] # Nil /\ rows[v] # Nil => rows[u].code # rows[v].code

(* Without a version the later of two edits wins, but only in the columns it *)
(* names: an edit that overlaps another one and names other columns undoes   *)
(* nothing of it.                                                            *)
EditsMerge ==
  [][\A r \in Requests :
       Commit(r) /\ req[r].op = "update" =>
         LET u == req[r].id
             F == req[r].fields
         IN /\ rows[u] # Nil
            /\ rows'[u].code = IF "code" \in F THEN req[r].row.code ELSE rows[u].code
            /\ rows'[u].value = IF "value" \in F THEN req[r].row.value ELSE rows[u].value]_vars

(* An edit that was waiting for a row while it was deleted does not bring it *)
(* back: a row appears once, by the call that drew its id.                   *)
DeletedStaysDeleted ==
  [][\A u \in Ids :
       rows[u] = Nil /\ rows'[u] # Nil =>
         \E r \in Requests : Commit(r) /\ req[r].op = "create" /\ req[r].id = u]_vars

(* Find's total and list come from two queries.  When no transaction commits *)
(* between them they fit each other: the page is as long as total, limit and *)
(* offset say, so a client that follows total reaches every row; unless the  *)
(* list broke off (NoList).                                                  *)
PageFitsTotal ==
  [][\A r \in Requests, S \in SUBSET Ids :
       List(r, S) /\ ~ search[r].moved =>
         Cardinality(S) = Smaller(Limit, Left(search[r].total, search[r].offset))]_vars

Asked(f) == {u \in Ids : rows[u] # Nil /\ AsAsked(f, Cells(u))}

(* Every row of a page satisfies every filter of the request, each by its    *)
(* own value, and none that does is missing from the total (unless a         *)
(* transaction committed since); upper case in the request finds what was    *)
(* stored in lower case, whether it was created or renamed so.               *)
FoundAsAsked ==
  [][\A r \in Requests, S \in SUBSET Ids :
       List(r, S) =>
         /\ S \subseteq Asked(search[r].filter)
         /\ ~ search[r].moved =>
              search[r].total = Cardinality(Asked(search[r].filter))]_vars

(* Statement, lock, index and COMMIT are steps of their own, and still every *)
(* call has changed the table at COMMIT as if it ran alone on it, or not at  *)
(* all: RowStore implements AtomicTable.                                     *)
Abstract == INSTANCE AtomicTable WITH
              table <- rows, drawn <- 1..(nextId - 1), call <- req

ImplementsAtomicTable == Abstract!Spec
=============================================================================
