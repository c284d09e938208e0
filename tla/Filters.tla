------------------------------ MODULE Filters ------------------------------
(***************************************************************************)
(* The WHERE that Find builds from a list of filters: the tables           *)
(* findFilters (model/gen__*_store.go) and the functions they name         *)
(* (model/gen___postgres.go).  filterPostgresTextUpper and -Numeric are in *)
(* no table and left out, and so are the columns of filterPostgresTime: a  *)
(* filter on one is decoded with its zone, and PostgreSQL compares without *)
(* it.                                                                     *)
(*                                                                         *)
(* A filter is [field, op, value], value being the JSON of the request.    *)
(***************************************************************************)
EXTENDS Integers, Sequences

CONSTANTS Texts,      \* the texts of rows and filters
          Lower,      \* strings.ToLower, and how ILIKE compares
          Like,       \* the pairs <<text, pattern>> that match
          Kind,       \* findFilters: column -> "int", "text" or "lower"
          Empty,      \* the empty text
          Null        \* JSON null

ASSUME TextsAssumption ==
  /\ Lower \in [Texts -> Texts] /\ \A t \in Texts : Lower[Lower[t]] = Lower[t]
  /\ Empty \in Texts /\ Null \notin Texts /\ Null \notin Nat

-----------------------------------------------------------------------------

Operators(kind) ==
  IF kind = "int" THEN {"eq", "gt", "gte", "lt", "lte"} ELSE {"eq", "like", "ilike"}

(* json.Unmarshal into an int64 or a string.  null leaves the zero value.    *)
Decodes(kind, value) ==
  value = Null \/ IF kind = "int" THEN value \in Nat ELSE value \in Texts
Decoded(kind, value) ==
  IF value # Null THEN value ELSE IF kind = "int" THEN 0 ELSE Empty

(* The list is built without an error. *)
Accepted(f) ==
  \A i \in DOMAIN f :
    /\ f[i].field \in DOMAIN Kind
    /\ f[i].op \in Operators(Kind[f[i].field])
    /\ Decodes(Kind[f[i].field], f[i].value)

Argument(c) ==
  LET v == Decoded(Kind[c.field], c.value)
  IN IF Kind[c.field] = "lower" /\ c.op # "ilike" THEN Lower[v] ELSE v
Args(f) == [i \in DOMAIN f |-> Argument(f[i])]

(* Each filter appends its argument and then names it by len(args). *)
FirstPlaceholder(i) == 1
Placeholder(i) == i
Where(f) ==
  [i \in DOMAIN f |-> [column |-> f[i].field, op |-> f[i].op, arg |-> Placeholder(i)]]

(* PostgreSQL: one condition, and a row (column -> cell) against them all. *)
Holds(cell, op, arg) ==
  \/ op = "eq" /\ cell = arg
  \/ op = "like" /\ <<cell, arg>> \in Like
  \/ op = "ilike" /\ <<Lower[cell], Lower[arg]>> \in Like
  \/ op = "gt" /\ cell > arg
  \/ op = "gte" /\ cell >= arg
  \/ op = "lt" /\ cell < arg
  \/ op = "lte" /\ cell <= arg
Selects(f, cells) ==
  \A i \in DOMAIN f :
    LET c == Where(f)[i] IN Holds(cells[c.column], c.op, Args(f)[c.arg])

(* How Create and Update store a text of the column. *)
Folded(column, t) == IF Kind[column] = "lower" THEN Lower[t] ELSE t

-----------------------------------------------------------------------------
(* What the client asks for: every filter, by its own value; in a column of  *)
(* kind "lower" upper and lower case are the same.                           *)
AsAsked(f, cells) ==
  \A i \in DOMAIN f :
    LET column == f[i].field
        value == Decoded(Kind[column], f[i].value)
    IN Holds(Folded(column, cells[column]), f[i].op, Folded(column, value))
=============================================================================
