-------------------------- MODULE RowStore_proofs --------------------------
(***************************************************************************)
(* Proofs about RowStore for any number of requests, keys and rows.  The   *)
(* inductive invariant is IInv.                                            *)
(***************************************************************************)
EXTENDS RowStore, FiniteSetTheorems, TLAPS

InCall == {"begun", "wrote"}

(* What a request carries at each place. *)
Shape ==
  \A r \in Requests :
    /\ at[r] \in InCall \cup {"leaked"} => req[r] \in Request
    /\ at[r] \in InCall /\ req[r].op # "delete" => req[r].row \in Row
    /\ at[r] = "counted" => search[r] \in Search

(* An id is drawn once. *)
FreshIds ==
  /\ \A u \in Ids : u >= nextId => rows[u] = Nil
  /\ \A r \in Requests : at[r] \in InCall /\ req[r].op = "create" =>
       /\ req[r].id < nextId
       /\ rows[req[r].id] = Nil
       /\ \A q \in Requests \ {r} :
            at[q] \in InCall /\ req[q].op = "create" => req[q].id # req[r].id

(* The pending row of a transaction against the committed one. *)
PendingRow ==
  \A r \in Requests : Wrote(r) =>
    /\ req[r].op = "create" => tx[r] = req[r].row
    /\ req[r].op = "update" => rows[req[r].id] # Nil /\ tx[r] = UpdatedRow(r)
    /\ req[r].op = "delete" => rows[req[r].id] # Nil /\ tx[r] = Nil

(* The row lock. *)
OneWriter ==
  \A q, r \in Requests : Wrote(q) /\ Wrote(r) /\ q # r => req[q].id # req[r].id

(* The unique index, over committed and pending rows. *)
PendingCodes ==
  /\ \A r \in Requests, v \in Ids :
       Wrote(r) /\ tx[r] # Nil /\ v # req[r].id /\ rows[v] # Nil
       => tx[r].code # rows[v].code
  /\ \A q, r \in Requests :
       Wrote(q) /\ Wrote(r) /\ q # r /\ tx[q] # Nil /\ tx[r] # Nil
       => tx[q].code # tx[r].code

(* What has been counted still is the count, as long as nobody commits. *)
StillCounted ==
  \A r \in Requests :
    at[r] = "counted" /\ ~ search[r].moved => search[r].total = Counted(search[r].filter)

(* Keys are stored folded, whoever wrote them. *)
IsFolded(row) == row.code = Folded("code", row.code)
FoldedCodes ==
  /\ \A u \in Ids : rows[u] # Nil => IsFolded(rows[u])
  /\ \A r \in Requests : at[r] \in InCall /\ req[r].op # "delete" => IsFolded(req[r].row)

IInv ==
  /\ TypeOK
  /\ Shape
  /\ FreshIds
  /\ PendingRow
  /\ OneWriter
  /\ UniqueCodes
  /\ PendingCodes
  /\ StillCounted
  /\ FoldedCodes

-----------------------------------------------------------------------------
(* The kinds of steps. *)

Starts(r, c) ==
  /\ c \in Request
  /\ c.op # "delete" => c.row \in Row /\ IsFolded(c.row)
  /\ IF c.op = "create"
       THEN nextId \in Ids /\ c.id = nextId /\ nextId' = nextId + 1
       ELSE nextId' = nextId
  /\ Begin(r, c)

Quits(r) == Finish(r) /\ UNCHANGED <<rows, search>>

Answers(r) == at[r] = "counted" /\ Found(r)

Step(r) ==
  \/ \E c : Starts(r, c)
  \/ Insert(r)
  \/ Update(r)
  \/ Delete(r)
  \/ Commit(r)
  \/ Quits(r)
  \/ LeakDelete(r)
  \/ Count(r)
  \/ Answers(r)

(* What a call is given becomes a row with a folded key. *)
LEMMA StoredIsFolded ==
  ASSUME NEW row \in Row
  PROVE  Stored(row) \in Row /\ IsFolded(Stored(row))
<1>1. Folded("code", row.code) \in Codes
  BY ColumnsAssumption DEF Folded, Row
<1>2. Folded("code", Folded("code", row.code)) = Folded("code", row.code)
  BY TextsAssumption, ColumnsAssumption DEF Folded, Row
<1> QED BY <1>1, <1>2 DEF Stored, IsFolded, Row

(* Every step is one of these. *)
LEMMA StepKinds ==
  ASSUME TypeOK, Next
  PROVE  \E r \in Requests : Step(r)
<1>1. ASSUME NEW r \in Requests, BeginCreate(r)
      PROVE  \E c : Starts(r, c)
  <2>1. PICK row \in Row :
          Begin(r, [op |-> "create", id |-> nextId, fields |-> {}, row |-> Stored(row)])
    BY <1>1 DEF BeginCreate
  <2> DEFINE c == [op |-> "create", id |-> nextId, fields |-> {}, row |-> Stored(row)]
  <2>2. c \in Request /\ c.row \in Row /\ IsFolded(c.row) /\ c.op = "create" /\ c.id = nextId
    BY <1>1, StoredIsFolded DEF Request, BeginCreate
  <2>3. Starts(r, c)
    BY <1>1, <2>1, <2>2 DEF Starts, BeginCreate
  <2> QED BY <2>3
<1>2. ASSUME NEW r \in Requests, NEW u \in Ids, BeginUpdate(r, u)
      PROVE  \E c : Starts(r, c)
  <2>1. PICK F \in SUBSET Columns, row \in Row :
          Begin(r, [op |-> "update", id |-> u, fields |-> F, row |-> Stored(row)])
    BY <1>2 DEF BeginUpdate
  <2> DEFINE c == [op |-> "update", id |-> u, fields |-> F, row |-> Stored(row)]
  <2>2. c \in Request /\ c.row \in Row /\ IsFolded(c.row) /\ c.op = "update"
    BY StoredIsFolded DEF Request
  <2>3. Starts(r, c)
    BY <1>2, <2>1, <2>2 DEF Starts, BeginUpdate
  <2> QED BY <2>3
<1>3. ASSUME NEW r \in Requests, NEW u \in Ids, BeginDelete(r, u)
      PROVE  \E c : Starts(r, c)
  <2> DEFINE c == [op |-> "delete", id |-> u, fields |-> {}, row |-> Nil]
  <2>1. c \in Request /\ c.op = "delete"
    BY DEF Request
  <2>2. Starts(r, c)
    BY <1>3, <2>1 DEF Starts, BeginDelete
  <2> QED BY <2>2
<1>4. ASSUME NEW r \in Requests, Rollback(r) \/ Abort(r) \/ ReleaseLeaked(r)
      PROVE  Quits(r)
  BY <1>4 DEF Rollback, Abort, ReleaseLeaked, Quits
<1>5. ASSUME NEW r \in Requests, NoList(r) \/ \E S \in SUBSET Ids : List(r, S)
      PROVE  Answers(r)
  BY <1>5 DEF NoList, List, Answers
<1> QED BY <1>1, <1>2, <1>3, <1>4, <1>5 DEF Next, Step

(* A count fits the ids there are. *)
LEMMA CountedType ==
  ASSUME NEW f
  PROVE  Counted(f) \in 0..MaxIds
<1>1. IsFiniteSet(Ids) /\ Cardinality(Ids) = MaxIds
  BY FS_Interval, BoundsAssumption DEF Ids
<1>2. Matching(f) \subseteq Ids
  BY DEF Matching
<1>3. IsFiniteSet(Matching(f)) /\ Cardinality(Matching(f)) <= Cardinality(Ids)
  BY <1>1, <1>2, FS_Subset
<1>4. Cardinality(Matching(f)) \in Nat
  BY <1>3, FS_CardinalityType
<1> QED BY <1>1, <1>3, <1>4, BoundsAssumption DEF Counted

(* An UPDATE writes a row. *)
LEMMA UpdatedRowType ==
  ASSUME TypeOK, NEW r \in Requests, req[r] \in Request, req[r].row \in Row, Present(r)
  PROVE  UpdatedRow(r) \in Row
  BY DEF UpdatedRow, Present, TypeOK, Request, Row

(* The types survive every step of a request. *)
LEMMA TypeStep ==
  ASSUME TypeOK, Shape, PendingRow, NEW r \in Requests, Step(r)
  PROVE  TypeOK' /\ Shape'
<1>1. ASSUME NEW c, Starts(r, c) PROVE TypeOK' /\ Shape'
  BY <1>1, BoundsAssumption DEF Starts, Begin, TypeOK, Shape, InCall, Places, Ids
<1>2. ASSUME Insert(r) PROVE TypeOK' /\ Shape'
  BY <1>2 DEF Insert, Write, TypeOK, Shape, InCall, Places
<1>3. ASSUME Update(r) PROVE TypeOK' /\ Shape'
  <2>1. UpdatedRow(r) \in Row
    BY <1>3, UpdatedRowType DEF Update, Shape, InCall
  <2> QED BY <1>3, <2>1 DEF Update, Write, TypeOK, Shape, InCall, Places
<1>4. ASSUME Delete(r) PROVE TypeOK' /\ Shape'
  BY <1>4 DEF Delete, Write, TypeOK, Shape, InCall, Places
<1>5. ASSUME Commit(r) PROVE TypeOK' /\ Shape'
  <2>1. \A q \in Requests : search'[q] = Moved(search[q])
    BY <1>5 DEF Commit
  <2>2. \A q \in Requests :
          /\ search[q] \in Search \cup {Nil} => Moved(search[q]) \in Search \cup {Nil}
          /\ search[q] \in Search => Moved(search[q]) \in Search
    BY NilAssumption DEF Moved, Search
  <2>3. search' \in [Requests -> Search \cup {Nil}]
    BY <1>5, <2>2 DEF Commit, TypeOK
  <2>4. rows' \in [Ids -> Row \cup {Nil}]
    BY <1>5 DEF Commit, Wrote, Shape, InCall, Request, TypeOK
  <2> QED
    BY <1>5, <2>1, <2>2, <2>3, <2>4 DEF Commit, Finish, TypeOK, Shape, InCall, Places
<1>6. ASSUME Quits(r) PROVE TypeOK' /\ Shape'
  BY <1>6 DEF Quits, Finish, TypeOK, Shape, InCall, Places
<1>7. ASSUME LeakDelete(r) PROVE TypeOK' /\ Shape'
  BY <1>7 DEF LeakDelete, TypeOK, Shape, InCall, Places
<1>8. ASSUME Count(r) PROVE TypeOK' /\ Shape'
  <2>1. PICK f \in FilterLists, offset \in 0..MaxIds :
          search' = [search EXCEPT ![r] =
            [filter |-> f, offset |-> offset, total |-> Counted(f), moved |-> FALSE]]
    BY <1>8 DEF Count
  <2>2. [filter |-> f, offset |-> offset, total |-> Counted(f), moved |-> FALSE] \in Search
    BY CountedType DEF Search
  <2> QED BY <1>8, <2>1, <2>2 DEF Count, TypeOK, Shape, InCall, Places
<1>9. ASSUME Answers(r) PROVE TypeOK' /\ Shape'
  BY <1>9 DEF Answers, Found, TypeOK, Shape, InCall, Places
<1> QED BY <1>1, <1>2, <1>3, <1>4, <1>5, <1>6, <1>7, <1>8, <1>9 DEF Step

(* An id drawn stays drawn, and a row appears with the create that drew it. *)
LEMMA FreshIdsStep ==
  ASSUME TypeOK, Shape, FreshIds, PendingRow, OneWriter,
         NEW r \in Requests, Step(r)
  PROVE  FreshIds'
<1>1. ASSUME NEW c, Starts(r, c) PROVE FreshIds'
  BY <1>1
  DEF Starts, Begin, TypeOK, Shape, InCall, FreshIds, PendingRow, Ids, Request, Wrote
<1>2. ASSUME Insert(r) PROVE FreshIds'
  BY <1>2
  DEF Insert, Write, TypeOK, Shape, InCall, FreshIds, PendingRow, Ids, Request, Wrote
<1>3. ASSUME Update(r) PROVE FreshIds'
  BY <1>3
  DEF Update, Write, TypeOK, Shape, InCall, FreshIds, PendingRow, Ids, Request, Wrote
<1>4. ASSUME Delete(r) PROVE FreshIds'
  BY <1>4
  DEF Delete, Write, TypeOK, Shape, InCall, FreshIds, PendingRow, Ids, Request, Wrote
<1>5. ASSUME Commit(r) PROVE FreshIds'
  BY <1>5
  DEF Commit, Finish, TypeOK, Shape, InCall, FreshIds, PendingRow, Ids, Request, Wrote
<1>6. ASSUME Quits(r) PROVE FreshIds'
  BY <1>6
  DEF Quits, Finish, TypeOK, Shape, InCall, FreshIds, PendingRow, Ids, Request, Wrote
<1>7. ASSUME LeakDelete(r) PROVE FreshIds'
  BY <1>7
  DEF LeakDelete, TypeOK, Shape, InCall, FreshIds, PendingRow, Ids, Request, Wrote
<1>8. ASSUME Count(r) PROVE FreshIds'
  BY <1>8
  DEF Count, TypeOK, Shape, InCall, FreshIds, PendingRow, Ids, Request, Wrote
<1>9. ASSUME Answers(r) PROVE FreshIds'
  BY <1>9
  DEF Answers, Found, TypeOK, Shape, InCall, FreshIds, PendingRow, Ids, Request, Wrote
<1> QED
  BY <1>1, <1>2, <1>3, <1>4, <1>5, <1>6, <1>7, <1>8, <1>9
  DEF Step

(* One transaction at a time writes a row, and nobody changes it meanwhile. *)
LEMMA WriterStep ==
  ASSUME TypeOK, Shape, FreshIds, PendingRow, OneWriter,
         NEW r \in Requests, Step(r)
  PROVE  PendingRow' /\ OneWriter'
<1>1. ASSUME NEW c, Starts(r, c) PROVE PendingRow' /\ OneWriter'
  BY <1>1
  DEF Starts, Begin, TypeOK, Shape, InCall, FreshIds, PendingRow, OneWriter, Ids,
      Request, Wrote, Present, Unlocked, HoldsRow, UpdatedRow
<1>2. ASSUME Insert(r) PROVE PendingRow' /\ OneWriter'
  BY <1>2
  DEF Insert, Write, TypeOK, Shape, InCall, FreshIds, PendingRow, OneWriter, Ids,
      Request, Wrote, Present, Unlocked, HoldsRow, UpdatedRow
<1>3. ASSUME Update(r) PROVE PendingRow' /\ OneWriter'
  BY <1>3
  DEF Update, Write, TypeOK, Shape, InCall, FreshIds, PendingRow, OneWriter, Ids,
      Request, Wrote, Present, Unlocked, HoldsRow, UpdatedRow
<1>4. ASSUME Delete(r) PROVE PendingRow' /\ OneWriter'
  BY <1>4
  DEF Delete, Write, TypeOK, Shape, InCall, FreshIds, PendingRow, OneWriter, Ids,
      Request, Wrote, Present, Unlocked, HoldsRow, UpdatedRow
<1>5. ASSUME Commit(r) PROVE PendingRow' /\ OneWriter'
  BY <1>5
  DEF Commit, Finish, TypeOK, Shape, InCall, FreshIds, PendingRow, OneWriter, Ids,
      Request, Wrote, Present, Unlocked, HoldsRow, UpdatedRow
<1>6. ASSUME Quits(r) PROVE PendingRow' /\ OneWriter'
  BY <1>6
  DEF Quits, Finish, TypeOK, Shape, InCall, FreshIds, PendingRow, OneWriter, Ids,
      Request, Wrote, Present, Unlocked, HoldsRow, UpdatedRow
<1>7. ASSUME LeakDelete(r) PROVE PendingRow' /\ OneWriter'
  BY <1>7
  DEF LeakDelete, TypeOK, Shape, InCall, FreshIds, PendingRow, OneWriter, Ids,
      Request, Wrote, Present, Unlocked, HoldsRow, UpdatedRow
<1>8. ASSUME Count(r) PROVE PendingRow' /\ OneWriter'
  BY <1>8
  DEF Count, TypeOK, Shape, InCall, FreshIds, PendingRow, OneWriter, Ids,
      Request, Wrote, Present, Unlocked, HoldsRow, UpdatedRow
<1>9. ASSUME Answers(r) PROVE PendingRow' /\ OneWriter'
  BY <1>9
  DEF Answers, Found, TypeOK, Shape, InCall, FreshIds, PendingRow, OneWriter, Ids,
      Request, Wrote, Present, Unlocked, HoldsRow, UpdatedRow
<1> QED
  BY <1>1, <1>2, <1>3, <1>4, <1>5, <1>6, <1>7, <1>8, <1>9
  DEF Step

(* The index is checked against every committed and every pending row. *)
LEMMA CodesStep ==
  ASSUME TypeOK, Shape, FreshIds, PendingRow, OneWriter, UniqueCodes, PendingCodes,
         NEW r \in Requests, Step(r)
  PROVE  UniqueCodes' /\ PendingCodes'
<1>1. ASSUME NEW c, Starts(r, c) PROVE UniqueCodes' /\ PendingCodes'
  BY <1>1
  DEF Starts, Begin, TypeOK, Shape, InCall, FreshIds, PendingRow, OneWriter, UniqueCodes,
      PendingCodes, Ids, Request, Wrote, CodeSettled, CodeTaken
<1>2. ASSUME Insert(r) PROVE UniqueCodes' /\ PendingCodes'
  BY <1>2
  DEF Insert, Write, TypeOK, Shape, InCall, FreshIds, PendingRow, OneWriter, UniqueCodes,
      PendingCodes, Ids, Request, Wrote, CodeSettled, CodeTaken
<1>3. ASSUME Update(r) PROVE UniqueCodes' /\ PendingCodes'
  BY <1>3
  DEF Update, Write, TypeOK, Shape, InCall, FreshIds, PendingRow, OneWriter, UniqueCodes,
      PendingCodes, Ids, Request, Wrote, CodeSettled, CodeTaken
<1>4. ASSUME Delete(r) PROVE UniqueCodes' /\ PendingCodes'
  BY <1>4
  DEF Delete, Write, TypeOK, Shape, InCall, FreshIds, PendingRow, OneWriter, UniqueCodes,
      PendingCodes, Ids, Request, Wrote, CodeSettled, CodeTaken
<1>5. ASSUME Commit(r) PROVE UniqueCodes' /\ PendingCodes'
  BY <1>5
  DEF Commit, Finish, TypeOK, Shape, InCall, FreshIds, PendingRow, OneWriter, UniqueCodes,
      PendingCodes, Ids, Request, Wrote, CodeSettled, CodeTaken
<1>6. ASSUME Quits(r) PROVE UniqueCodes' /\ PendingCodes'
  BY <1>6
  DEF Quits, Finish, TypeOK, Shape, InCall, FreshIds, PendingRow, OneWriter, UniqueCodes,
      PendingCodes, Ids, Request, Wrote, CodeSettled, CodeTaken
<1>7. ASSUME LeakDelete(r) PROVE UniqueCodes' /\ PendingCodes'
  BY <1>7
  DEF LeakDelete, TypeOK, Shape, InCall, FreshIds, PendingRow, OneWriter, UniqueCodes,
      PendingCodes, Ids, Request, Wrote, CodeSettled, CodeTaken
<1>8. ASSUME Count(r) PROVE UniqueCodes' /\ PendingCodes'
  BY <1>8
  DEF Count, TypeOK, Shape, InCall, FreshIds, PendingRow, OneWriter, UniqueCodes,
      PendingCodes, Ids, Request, Wrote, CodeSettled, CodeTaken
<1>9. ASSUME Answers(r) PROVE UniqueCodes' /\ PendingCodes'
  BY <1>9
  DEF Answers, Found, TypeOK, Shape, InCall, FreshIds, PendingRow, OneWriter, UniqueCodes,
      PendingCodes, Ids, Request, Wrote, CodeSettled, CodeTaken
<1> QED
  BY <1>1, <1>2, <1>3, <1>4, <1>5, <1>6, <1>7, <1>8, <1>9
  DEF Step

(* Neither a create nor an update stores a key that is not folded. *)
LEMMA FoldedStep ==
  ASSUME TypeOK, Shape, PendingRow, FoldedCodes,
         NEW r \in Requests, Step(r)
  PROVE  FoldedCodes'
<1>1. ASSUME NEW c, Starts(r, c) PROVE FoldedCodes'
  BY <1>1 DEF Starts, Begin, TypeOK, FoldedCodes, InCall
<1>2. ASSUME Insert(r) \/ Update(r) \/ Delete(r) PROVE FoldedCodes'
  BY <1>2 DEF Insert, Update, Delete, Write, TypeOK, FoldedCodes, InCall
<1>3. ASSUME Commit(r) PROVE FoldedCodes'
  <2>1. at[r] \in InCall /\ req[r] \in Request /\ req[r].id \in Ids
    BY <1>3 DEF Commit, Wrote, InCall, Shape, Request
  <2>2. tx[r] # Nil => IsFolded(tx[r])
    <3>1. CASE req[r].op = "create"
      BY <1>3, <2>1, <3>1 DEF Commit, PendingRow, FoldedCodes
    <3>2. CASE req[r].op = "update"
      <4>1. rows[req[r].id] # Nil /\ tx[r] = UpdatedRow(r)
        BY <1>3, <3>2 DEF Commit, PendingRow
      <4>2. tx[r].code \in {req[r].row.code, rows[req[r].id].code}
        BY <4>1 DEF UpdatedRow
      <4>3. IsFolded(req[r].row) /\ IsFolded(rows[req[r].id])
        BY <2>1, <3>2, <4>1 DEF FoldedCodes
      <4> QED BY <4>2, <4>3 DEF IsFolded
    <3>3. CASE req[r].op = "delete"
      BY <1>3, <3>3 DEF Commit, PendingRow
    <3> QED BY <2>1, <3>1, <3>2, <3>3 DEF Request
  <2>3. \A u \in Ids : rows'[u] = rows[u] \/ (u = req[r].id /\ rows'[u] = tx[r])
    BY <1>3, <2>1 DEF Commit, TypeOK
  <2>4. \A u \in Ids : rows'[u] # Nil => IsFolded(rows'[u])
    BY <2>2, <2>3 DEF FoldedCodes
  <2>5. \A q \in Requests : at'[q] \in InCall => at[q] \in InCall /\ req'[q] = req[q]
    BY <1>3 DEF Commit, Finish, TypeOK, InCall
  <2> QED BY <2>4, <2>5 DEF FoldedCodes, IsFolded
<1>4. ASSUME Quits(r) \/ LeakDelete(r) \/ Count(r) \/ Answers(r) PROVE FoldedCodes'
  BY <1>4 DEF Quits, Finish, LeakDelete, Count, Answers, Found, TypeOK, FoldedCodes, InCall
<1> QED
  BY <1>1, <1>2, <1>3, <1>4 DEF Step

(* Only a commit changes what a count counts. *)
LEMMA CountStep ==
  ASSUME TypeOK, Shape, StillCounted,
         NEW r \in Requests, Step(r)
  PROVE  StillCounted'
<1>1. ASSUME NEW c, Starts(r, c) PROVE StillCounted'
  BY <1>1
  DEF Starts, Begin, TypeOK, Shape, InCall, StillCounted, Counted, Matching, Cells
<1>2. ASSUME Insert(r) PROVE StillCounted'
  BY <1>2
  DEF Insert, Write, TypeOK, Shape, InCall, StillCounted, Counted, Matching, Cells
<1>3. ASSUME Update(r) PROVE StillCounted'
  BY <1>3
  DEF Update, Write, TypeOK, Shape, InCall, StillCounted, Counted, Matching, Cells
<1>4. ASSUME Delete(r) PROVE StillCounted'
  BY <1>4
  DEF Delete, Write, TypeOK, Shape, InCall, StillCounted, Counted, Matching, Cells
<1>5. ASSUME Commit(r) PROVE StillCounted'
  <2> SUFFICES ASSUME NEW q \in Requests, at'[q] = "counted"
               PROVE  search'[q].moved
    BY DEF StillCounted
  <2>1. at[q] = "counted"
    BY <1>5 DEF Commit, Finish, TypeOK
  <2>2. search[q] \in Search /\ search[q] # Nil
    BY <2>1, NilAssumption DEF Shape
  <2>3. search'[q] = Moved(search[q])
    BY <1>5 DEF Commit
  <2> QED BY <2>2, <2>3 DEF Moved
<1>6. ASSUME Quits(r) PROVE StillCounted'
  BY <1>6
  DEF Quits, Finish, TypeOK, Shape, InCall, StillCounted, Counted, Matching, Cells
<1>7. ASSUME LeakDelete(r) PROVE StillCounted'
  BY <1>7
  DEF LeakDelete, TypeOK, Shape, InCall, StillCounted, Counted, Matching, Cells
<1>8. ASSUME Count(r) PROVE StillCounted'
  <2>1. PICK f \in FilterLists, offset \in 0..MaxIds :
          search' = [search EXCEPT ![r] =
            [filter |-> f, offset |-> offset, total |-> Counted(f), moved |-> FALSE]]
    BY <1>8 DEF Count
  <2>2. \A g : Counted(g)' = Counted(g)
    BY <1>8 DEF Count, Counted, Matching, Cells
  <2>3. ASSUME NEW q \in Requests, at'[q] = "counted", ~ search'[q].moved
        PROVE  search'[q].total = Counted(search'[q].filter)
    BY <1>8, <2>1, <2>3 DEF Count, TypeOK, StillCounted
  <2> QED BY <2>2, <2>3 DEF StillCounted
<1>9. ASSUME Answers(r) PROVE StillCounted'
  BY <1>9
  DEF Answers, Found, TypeOK, Shape, InCall, StillCounted, Counted, Matching, Cells
<1> QED
  BY <1>1, <1>2, <1>3, <1>4, <1>5, <1>6, <1>7, <1>8, <1>9
  DEF Step

-----------------------------------------------------------------------------

(* IInv is inductive. *)
THEOREM RowsInvariance == Spec => []IInv
<1>1. Init => IInv
  <2> SUFFICES ASSUME Init PROVE IInv
    OBVIOUS
  <2>1. TypeOK
    BY BoundsAssumption DEF Init, TypeOK, Places, Ids
  <2>2. Shape /\ FreshIds /\ PendingRow /\ OneWriter
    BY DEF Init, Shape, InCall, FreshIds, PendingRow, OneWriter, Wrote
  <2>3. UniqueCodes /\ PendingCodes /\ StillCounted /\ FoldedCodes
    BY DEF Init, UniqueCodes, PendingCodes, StillCounted, FoldedCodes, InCall, Wrote
  <2> QED BY <2>1, <2>2, <2>3 DEF IInv
<1>2. IInv /\ [Next]_vars => IInv'
  <2> SUFFICES ASSUME IInv, [Next]_vars PROVE IInv'
    OBVIOUS
  <2>1. CASE Next
    <3>1. PICK r \in Requests : Step(r)
      BY <2>1, StepKinds DEF IInv
    <3> QED
      BY <3>1, TypeStep, FreshIdsStep, WriterStep, CodesStep, CountStep, FoldedStep
      DEF IInv
  <2>2. CASE UNCHANGED vars
    BY <2>2 DEF vars, IInv, TypeOK, Shape, InCall, FreshIds, PendingRow, OneWriter,
      UniqueCodes, PendingCodes, StillCounted, Wrote, UpdatedRow, Counted, Matching,
      Cells, FoldedCodes
  <2> QED BY <2>1, <2>2
<1> QED BY <1>1, <1>2, PTL DEF Spec

(* Type correctness. *)
THEOREM RowsTypeCorrect == Spec => []TypeOK
<1>1. IInv => TypeOK
  BY DEF IInv
<1> QED BY RowsInvariance, <1>1, PTL

(* The key stays unique under any interleaving of inserts, renames and       *)
(* deletions.                                                                *)
THEOREM UniqueCodesHolds == Spec => []UniqueCodes
<1>1. IInv => UniqueCodes
  BY DEF IInv
<1> QED BY RowsInvariance, <1>1, PTL

(* An update changes the columns it names in the row as it is at COMMIT, not *)
(* as it was when the request began.                                         *)
THEOREM EditsMergeHolds == Spec => EditsMerge
<1>1. ASSUME IInv, [Next]_vars
      PROVE  [\A r \in Requests :
                Commit(r) /\ req[r].op = "update" =>
                  LET u == req[r].id
                      F == req[r].fields
                  IN /\ rows[u] # Nil
                     /\ rows'[u].code = IF "code" \in F THEN req[r].row.code
                                        ELSE rows[u].code
                     /\ rows'[u].value = IF "value" \in F THEN req[r].row.value
                                         ELSE rows[u].value]_vars
  <2> SUFFICES ASSUME NEW r \in Requests, Commit(r), req[r].op = "update"
               PROVE  /\ rows[req[r].id] # Nil
                      /\ rows'[req[r].id] = UpdatedRow(r)
    <3>1. \A r \in Requests :
            Commit(r) /\ req[r].op = "update" =>
              rows[req[r].id] # Nil /\ rows'[req[r].id] = UpdatedRow(r)
      OBVIOUS
    <3>2. \A r \in Requests :
            /\ UpdatedRow(r).code = IF "code" \in req[r].fields THEN req[r].row.code
                                    ELSE rows[req[r].id].code
            /\ UpdatedRow(r).value = IF "value" \in req[r].fields THEN req[r].row.value
                                     ELSE rows[req[r].id].value
      BY DEF UpdatedRow
    <3> QED BY <3>1, <3>2
  <2>1. rows[req[r].id] # Nil /\ tx[r] = UpdatedRow(r)
    BY <1>1 DEF Commit, IInv, PendingRow
  <2>2. req[r].id \in Ids
    BY <1>1 DEF Commit, Wrote, IInv, Shape, InCall, Request
  <2> QED BY <1>1, <2>1, <2>2 DEF Commit, IInv, TypeOK
<1> QED BY RowsInvariance, <1>1, PTL DEF Spec, EditsMerge

(* A row that is gone stays gone. *)
THEOREM DeletedStays == Spec => DeletedStaysDeleted
<1>1. ASSUME IInv, [Next]_vars
      PROVE  [\A u \in Ids :
                rows[u] = Nil /\ rows'[u] # Nil =>
                  \E r \in Requests :
                    Commit(r) /\ req[r].op = "create" /\ req[r].id = u]_vars
  <2> SUFFICES ASSUME NEW u \in Ids, rows[u] = Nil, rows'[u] # Nil
               PROVE  \E r \in Requests :
                        Commit(r) /\ req[r].op = "create" /\ req[r].id = u
    OBVIOUS
  <2>1. Next
    BY <1>1 DEF vars
  <2>2. PICK r \in Requests : Step(r)
    BY <1>1, <2>1, StepKinds DEF IInv
  <2>3. Commit(r)
    BY <2>2 DEF Step, Starts, Begin, Insert, Update, Delete, Write, Quits, LeakDelete,
      Count, Answers, Found
  <2>4. Wrote(r) /\ req[r] \in Request /\ req[r].id = u
    BY <1>1, <2>3 DEF Commit, Wrote, IInv, Shape, InCall, TypeOK
  <2>5. req[r].op = "create"
    BY <1>1, <2>4 DEF IInv, PendingRow, Request
  <2> QED BY <2>3, <2>4, <2>5
<1> QED BY RowsInvariance, <1>1, PTL DEF Spec, DeletedStaysDeleted

(* Without a commit in between, the page is as long as the total says. *)
THEOREM PageFits == Spec => PageFitsTotal
<1>1. ASSUME IInv, [Next]_vars
      PROVE  [\A r \in Requests, S \in SUBSET Ids :
                List(r, S) /\ ~ search[r].moved =>
                  Cardinality(S) =
                    Smaller(Limit, Left(search[r].total, search[r].offset))]_vars
  BY <1>1 DEF List, IInv, StillCounted, Counted
<1> QED BY RowsInvariance, <1>1, PTL DEF Spec, PageFitsTotal

-----------------------------------------------------------------------------

(* On a stored row the query selects what was asked for. *)
LEMMA SelectsWhatWasAsked ==
  ASSUME NEW f, NEW cells, Accepted(f), cells["code"] = Folded("code", cells["code"]),
         cells["code"] \in Codes
  PROVE  Selects(f, cells) <=> AsAsked(f, cells)
<1> SUFFICES ASSUME NEW i \in DOMAIN f
             PROVE  Holds(cells[f[i].field], f[i].op, Argument(f[i])) <=>
                    LET column == f[i].field
                        value == Decoded(Kind[column], f[i].value)
                    IN Holds(Folded(column, cells[column]), f[i].op, Folded(column, value))
  BY DEF Selects, AsAsked, Where, Args, Placeholder
<1> DEFINE column == f[i].field
           value == Decoded(Kind[column], f[i].value)
<1>1. column \in DOMAIN Kind
  BY DEF Accepted
<1>2. CASE Kind[column] # "lower"
  BY <1>2 DEF Folded, Argument
<1>3. CASE Kind[column] = "lower"
  <2>1. column = "code" /\ Folded(column, cells[column]) = cells[column]
    BY <1>1, <1>3, ColumnsAssumption
  <2>2. value \in Texts
    BY <1>3, TextsAssumption DEF Accepted, Decodes, Decoded
  <2>3. CASE f[i].op # "ilike"
    BY <1>3, <2>1, <2>3 DEF Argument, Folded
  <2>4. CASE f[i].op = "ilike"
    <3>1. Argument(f[i]) = value /\ Folded(column, value) = Lower[value]
      BY <1>3, <2>4 DEF Argument, Folded
    <3>2. Lower[Lower[value]] = Lower[value]
      BY <2>2, TextsAssumption
    <3> QED BY <2>1, <2>4, <3>1, <3>2 DEF Holds
  <2> QED BY <2>3, <2>4
<1> QED BY <1>2, <1>3

(* What the query finds in the table is what was asked for. *)
LEMMA MatchingIsAsked ==
  ASSUME TypeOK, FoldedCodes, NEW f, Accepted(f)
  PROVE  Matching(f) = Asked(f)
<1>1. ASSUME NEW u \in Ids, rows[u] # Nil
      PROVE  Selects(f, Cells(u)) <=> AsAsked(f, Cells(u))
  <2>1. Cells(u).code = rows[u].code /\ rows[u] \in Row
    BY <1>1 DEF Cells, TypeOK
  <2>2. Cells(u)["code"] = Folded("code", Cells(u)["code"]) /\ Cells(u)["code"] \in Codes
    BY <1>1, <2>1 DEF FoldedCodes, IsFolded, Row
  <2> QED BY <2>2, SelectsWhatWasAsked
<1> QED BY <1>1 DEF Matching, Asked

(* A Find in progress has a list that was accepted. *)
Accepting == \A r \in Requests : at[r] = "counted" => Accepted(search[r].filter)

LEMMA AcceptingHolds == Spec => []Accepting
<1>1. Init => Accepting
  BY DEF Init, Accepting
<1>2. ASSUME IInv, Accepting, [Next]_vars PROVE Accepting'
  <2>1. CASE Next
    <3>1. PICK r \in Requests : Step(r)
      BY <1>2, <2>1, StepKinds DEF IInv
    <3>2. CASE Commit(r)
      <4>1. \A q \in Requests : at'[q] = "counted" => at[q] = "counted"
        BY <1>2, <3>2 DEF Commit, Finish, IInv, TypeOK
      <4>2. \A q \in Requests : at[q] = "counted" => search'[q].filter = search[q].filter
        BY <1>2, <3>2, NilAssumption DEF Commit, Moved, IInv, Shape
      <4> QED BY <1>2, <4>1, <4>2 DEF Accepting
    <3>3. CASE Count(r)
      <4>1. PICK f \in FilterLists, offset \in 0..MaxIds :
              /\ Accepted(f)
              /\ search' = [search EXCEPT ![r] =
                   [filter |-> f, offset |-> offset, total |-> Counted(f), moved |-> FALSE]]
        BY <3>3 DEF Count
      <4> QED BY <1>2, <3>3, <4>1 DEF Count, Accepting, IInv, TypeOK
    <3>4. CASE ~ Commit(r) /\ ~ Count(r)
      BY <1>2, <3>1, <3>4
      DEF Step, Starts, Begin, Insert, Update, Delete, Write, Quits, Finish, LeakDelete,
          Answers, Found, Accepting, IInv, TypeOK
    <3> QED BY <3>2, <3>3, <3>4
  <2>2. CASE UNCHANGED vars
    BY <1>2, <2>2 DEF vars, Accepting
  <2> QED BY <1>2, <2>1, <2>2
<1> QED BY RowsInvariance, <1>1, <1>2, PTL DEF Spec

(* Page and total are those of the rows that were asked for. *)
THEOREM FindsWhatWasAsked == Spec => FoundAsAsked
<1>1. ASSUME IInv, Accepting, [Next]_vars
      PROVE  [\A r \in Requests, S \in SUBSET Ids :
                List(r, S) =>
                  /\ S \subseteq Asked(search[r].filter)
                  /\ ~ search[r].moved =>
                       search[r].total = Cardinality(Asked(search[r].filter))]_vars
  <2> SUFFICES ASSUME NEW r \in Requests, NEW S \in SUBSET Ids, List(r, S)
               PROVE  /\ S \subseteq Asked(search[r].filter)
                      /\ ~ search[r].moved =>
                           search[r].total = Cardinality(Asked(search[r].filter))
    OBVIOUS
  <2>1. at[r] = "counted" /\ S \subseteq Matching(search[r].filter)
    BY DEF List
  <2>2. Matching(search[r].filter) = Asked(search[r].filter)
    BY <1>1, <2>1, MatchingIsAsked DEF IInv, Accepting
  <2> QED BY <1>1, <2>1, <2>2 DEF IInv, StillCounted, Counted
<1> QED BY RowsInvariance, AcceptingHolds, <1>1, PTL DEF Spec, FoundAsAsked

-----------------------------------------------------------------------------
(* RowStore implements AtomicTable: COMMIT is the step in which a call acts. *)

(* A request that is in no call has no arguments. *)
Idle == \A r \in Requests : at[r] \in {"idle", "counted"} <=> req[r] = Nil

LEMMA IdleHolds == Spec => []Idle
<1>1. Init => Idle
  BY DEF Init, Idle
<1>2. ASSUME IInv, Idle, [Next]_vars PROVE Idle'
  <2>1. CASE Next
    <3>1. PICK r \in Requests : Step(r)
      BY <1>2, <2>1, StepKinds DEF IInv
    <3>2. ASSUME NEW c, Starts(r, c) PROVE Idle'
      BY <1>2, <3>2, NilAssumption DEF Starts, Begin, Idle, IInv, TypeOK
    <3>3. CASE Insert(r) \/ Update(r) \/ Delete(r) \/ LeakDelete(r)
      BY <1>2, <3>3 DEF Insert, Update, Delete, Write, LeakDelete, Idle, IInv, TypeOK
    <3>4. CASE Commit(r) \/ Quits(r)
      BY <1>2, <3>4 DEF Commit, Quits, Finish, Idle, IInv, TypeOK
    <3>5. CASE Count(r) \/ Answers(r)
      BY <1>2, <3>5 DEF Count, Answers, Found, Idle, IInv, TypeOK
    <3> QED BY <3>1, <3>2, <3>3, <3>4, <3>5 DEF Step
  <2>2. CASE UNCHANGED vars
    BY <1>2, <2>2 DEF vars, Idle
  <2> QED BY <1>2, <2>1, <2>2
<1> QED BY RowsInvariance, <1>1, <1>2, PTL DEF Spec

(* A COMMIT does to the table as it is then what the call says, though the   *)
(* statement looked at the table as it was earlier.                          *)
LEMMA CommitActsOnce ==
  ASSUME IInv, NEW r \in Requests, Commit(r)
  PROVE  Abstract!Create(r) \/ Abstract!Edit(r) \/ Abstract!Remove(r)
<1> USE NilAssumption
<1>1. /\ Wrote(r) /\ req[r] \in Request /\ req[r] # Nil /\ req[r].id \in Ids
      /\ rows' = [rows EXCEPT ![req[r].id] = tx[r]]
      /\ req' = [req EXCEPT ![r] = Nil] /\ nextId' = nextId
  BY DEF Commit, Finish, Wrote, IInv, Shape, InCall, Request
<1>2. tx[r] # Nil => \A v \in Ids \ {req[r].id} : rows[v] # Nil => rows[v].code # tx[r].code
  BY <1>1 DEF IInv, PendingCodes
<1>3. Abstract!Put(r, tx[r])
  BY <1>1, <1>2 DEF Abstract!Put, Abstract!KeyFree, Abstract!Return
<1>4. CASE req[r].op = "create"
  <2>1. tx[r] = req[r].row /\ rows[req[r].id] = Nil
    BY <1>1, <1>4 DEF IInv, PendingRow, FreshIds, InCall, Wrote
  <2> QED BY <1>1, <1>3, <1>4, <2>1 DEF Abstract!Create
<1>5. CASE req[r].op = "update"
  <2>1. rows[req[r].id] # Nil /\ tx[r] = UpdatedRow(r)
    BY <1>1, <1>5 DEF IInv, PendingRow
  <2>2. UpdatedRow(r) = Abstract!Edited(rows[req[r].id], req[r].row, req[r].fields)
    BY DEF UpdatedRow, Abstract!Edited
  <2> QED BY <1>1, <1>3, <1>5, <2>1, <2>2 DEF Abstract!Edit
<1>6. CASE req[r].op = "delete"
  <2>1. rows[req[r].id] # Nil /\ tx[r] = Nil
    BY <1>1, <1>6 DEF IInv, PendingRow
  <2> QED BY <1>1, <1>3, <1>6, <2>1 DEF Abstract!Remove
<1> QED BY <1>1, <1>4, <1>5, <1>6 DEF Request

(* A call begins with an id that nobody has drawn, when it draws one. *)
LEMMA StartInvokes ==
  ASSUME IInv, Idle, NEW r \in Requests, NEW c, Starts(r, c)
  PROVE  Abstract!Invoke(r)
<1>1. /\ req[r] = Nil /\ UNCHANGED rows
      /\ req' = [req EXCEPT ![r] = c] /\ req'[r] = c /\ c # Nil
  BY NilAssumption DEF Starts, Begin, Idle, IInv, TypeOK
<1>2. c \in Abstract!Calls
  BY DEF Starts, Request, Abstract!Calls, Abstract!Row, Row, Columns
<1>3. c.op # "delete" => c.row \in Abstract!Row
  BY DEF Starts, Abstract!Row, Row
<1>4. nextId \in 1..(MaxIds + 1) /\ nextId' \in Int
  BY BoundsAssumption DEF Starts, IInv, TypeOK
<1>5. c.op = "create" => c.id \notin 1..(nextId - 1)
  BY <1>4 DEF Starts
<1>6. 1..(nextId' - 1) = IF c.op = "create" THEN (1..(nextId - 1)) \cup {c.id}
                        ELSE 1..(nextId - 1)
  <2>1. CASE c.op = "create"
    <3>1. c.id = nextId /\ nextId' = nextId + 1
      BY <2>1 DEF Starts
    <3>2. nextId \in Int /\ nextId >= 1
      BY <1>4, BoundsAssumption
    <3>3. ASSUME NEW n PROVE n \in 1..nextId <=> n \in 1..(nextId - 1) \cup {nextId}
      BY <3>2
    <3>4. nextId' - 1 = nextId
      BY <3>1, <3>2
    <3> QED BY <2>1, <3>1, <3>3, <3>4
  <2>2. CASE c.op # "create"
    BY <2>2 DEF Starts
  <2> QED BY <2>1, <2>2
<1> QED BY <1>1, <1>2, <1>3, <1>5, <1>6 DEF Abstract!Invoke

(* Every call changes the table in one step, as if it ran alone, or not at   *)
(* all: RowStore implements AtomicTable.                                     *)
THEOREM RowsRefinement == Spec => ImplementsAtomicTable
<1>1. Init => Abstract!Init
  BY DEF Init, Abstract!Init
<1>2. ASSUME IInv, Idle, [Next]_vars
      PROVE  [Abstract!Next]_(Abstract!vars)
  <2>1. CASE Next
    <3>1. PICK r \in Requests : Step(r)
      BY <1>2, <2>1, StepKinds DEF IInv
    <3>2. ASSUME NEW c, Starts(r, c) PROVE Abstract!Next
      BY <1>2, <3>2, StartInvokes DEF Abstract!Next
    <3>3. CASE Commit(r)
      BY <1>2, <3>3, CommitActsOnce DEF Abstract!Next
    <3>4. CASE Quits(r)
      <4>1. UNCHANGED <<rows, nextId>> /\ req' = [req EXCEPT ![r] = Nil]
        BY <3>4 DEF Quits, Finish
      <4>2. CASE req[r] # Nil
        BY <4>1, <4>2 DEF Abstract!Next, Abstract!Fail, Abstract!Return
      <4>3. CASE req[r] = Nil
        BY <1>2, <4>1, <4>3 DEF Abstract!vars, IInv, TypeOK
      <4> QED BY <4>2, <4>3
    <3>5. CASE Insert(r) \/ Update(r) \/ Delete(r) \/ LeakDelete(r) \/ Count(r) \/ Answers(r)
      BY <3>5
      DEF Insert, Update, Delete, Write, LeakDelete, Count, Answers, Found, Abstract!vars
    <3> QED BY <3>1, <3>2, <3>3, <3>4, <3>5 DEF Step
  <2>2. CASE UNCHANGED vars
    BY <2>2 DEF vars, Abstract!vars
  <2> QED BY <1>2, <2>1, <2>2
<1> QED
  BY RowsInvariance, IdleHolds, <1>1, <1>2, PTL
  DEF Spec, ImplementsAtomicTable, Abstract!Spec
=============================================================================
