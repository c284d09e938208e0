---------------------------- MODULE AtomicTable ----------------------------
(***************************************************************************)
(* What the stores without a version promise their callers, without        *)
(* statements, locks and transactions: a call changes the table in one     *)
(* step, as if it ran alone, or not at all.  RowStore is shown to          *)
(* implement it.                                                           *)
(***************************************************************************)
CONSTANTS Requests,     \* callers
          Ids,
          Codes,        \* the unique key
          Values,       \* the other columns
          Nil

Row == [code : Codes, value : Values]

VARIABLES
  table,     \* id -> row or Nil
  drawn,     \* the ids some create has drawn
  call       \* request -> the call it has made, or Nil

vars == <<table, drawn, call>>

Calls == [op : {"create", "update", "delete"}, id : Ids,
          fields : SUBSET {"code", "value"}, row : Row \cup {Nil}]

Init ==
  /\ table = [u \in Ids |-> Nil]
  /\ drawn = {}
  /\ call = [r \in Requests |-> Nil]

Invoke(r) ==
  LET c == call'[r] IN
  /\ call[r] = Nil /\ c \in Calls
  /\ call' = [call EXCEPT ![r] = c]
  /\ c.op # "delete" => c.row \in Row
  /\ c.op = "create" => c.id \notin drawn
  /\ drawn' = IF c.op = "create" THEN drawn \cup {c.id} ELSE drawn
  /\ UNCHANGED table

Return(r) == call' = [call EXCEPT ![r] = Nil] /\ UNCHANGED drawn

KeyFree(u, code) == \A v \in Ids \ {u} : table[v] # Nil => table[v].code # code

Put(r, row) ==
  /\ row # Nil => KeyFree(call[r].id, row.code)
  /\ table' = [table EXCEPT ![call[r].id] = row]
  /\ Return(r)

(* A row appears once, by the call that drew its id. *)
Create(r) ==
  /\ call[r] # Nil /\ call[r].op = "create"
  /\ table[call[r].id] = Nil
  /\ Put(r, call[r].row)

(* An edit changes, in the row as it is then, the columns it names. *)
Edited(old, new, fields) ==
  [code |-> IF "code" \in fields THEN new.code ELSE old.code,
   value |-> IF "value" \in fields THEN new.value ELSE old.value]

Edit(r) ==
  /\ call[r] # Nil /\ call[r].op = "update"
  /\ table[call[r].id] # Nil
  /\ Put(r, Edited(table[call[r].id], call[r].row, call[r].fields))

Remove(r) ==
  /\ call[r] # Nil /\ call[r].op = "delete"
  /\ table[call[r].id] # Nil
  /\ Put(r, Nil)

(* A call that fails has changed nothing. *)
Fail(r) ==
  /\ call[r] # Nil
  /\ UNCHANGED table
  /\ Return(r)

Next == \E r \in Requests : Fail(r) \/ Create(r) \/ Edit(r) \/ Remove(r) \/ Invoke(r)

Spec == Init /\ [][Next]_vars
=============================================================================
