--------------------------- MODULE Session_proofs ---------------------------
(***************************************************************************)
(* Proofs about Session for any number of clients and requests, any token  *)
(* lifetimes and any number of restarts and re-created accounts.  The      *)
(* inductive invariant is IInv.                                            *)
(***************************************************************************)
EXTENDS Session, TLAPS

Busy(r) == req[r] # Nil
Loaded(r) == Busy(r) /\ req[r].phase # "sent"

(* What a request carries in each phase. *)
Shape ==
  \A r \in Requests :
    /\ Loaded(r) => req[r].copy \in Account
    /\ Busy(r) /\ req[r].phase \in {"sent", "read"} => req[r].issued = Nil
    /\ Busy(r) /\ req[r].phase = "signed" =>
         req[r].op \in {"login", "refresh"} /\ req[r].issued \in Times
    /\ Busy(r) /\ req[r].phase = "stored" =>
         \/ req[r].op \in {"login", "refresh"} /\ req[r].issued \in Times
         \/ req[r].op = "logout" /\ req[r].issued = Nil
    /\ Busy(r) => (req[r].presented = Nil <=> req[r].op = "login")

(* A refresh goes on only when the copy holds what was presented to it. *)
Matched ==
  \A r \in Requests :
    Loaded(r) /\ req[r].op = "refresh" =>
      /\ req[r].copy.token = req[r].presented
      /\ req[r].copy.secret = req[r].key

(* Ids are not reused and versions only grow: no copy is ahead of the row. *)
CopiesBehind ==
  /\ account # Nil => account.id < nextId
  /\ \A r \in Requests :
       Loaded(r) =>
         /\ req[r].copy.id < nextId
         /\ SameId(r) => req[r].copy.version <= account.version

(* Whatever has been issued was issued up to now. *)
Past ==
  /\ account # Nil /\ account.token \in Times => account.token <= now
  /\ \A c \in Clients : held[c] # Nil => held[c].iat <= now
  /\ \A r \in Requests :
       Busy(r) /\ req[r].issued \in Times => req[r].issued <= now

(* A token that can still be stored is at least as new as all that have     *)
(* been: stored, on the way to a client, or with one.                       *)
NewerThanAll(t) ==
  /\ account # Nil /\ account.token \in Times => account.token <= t
  /\ \A c \in Clients : held[c] # Nil => held[c].iat <= t
  /\ \A q \in Requests :
       Busy(q) /\ req[q].phase = "stored" /\ req[q].issued \in Times
       => req[q].issued <= t

FreshTokens ==
  \A r \in Requests :
    Busy(r) /\ req[r].phase = "signed" /\ Current(r) => NewerThanAll(req[r].issued)

(* An answer that is on its way is not ahead of the row. *)
NoAnswerAhead ==
  \A q \in Requests :
    Busy(q) /\ req[q].phase = "stored" /\ req[q].issued \in Times
      /\ account # Nil /\ account.token \in Times
    => req[q].issued <= account.token

IInv ==
  /\ TypeOK
  /\ Shape
  /\ Matched
  /\ CopiesBehind
  /\ CurrentCopyIsTheSession
  /\ Past
  /\ FreshTokens
  /\ NoAnswerAhead
  /\ NoClientAhead

-----------------------------------------------------------------------------
(* Steps that touch no account and no client's tokens: requests start and end. *)

Started(q) ==
  /\ q \in Request
  /\ q.phase = "sent" /\ q.issued = Nil
  /\ q.presented = Nil <=> q.op = "login"

Comings ==
  /\ UNCHANGED <<now, nextId, account, held>>
  /\ \A r \in Requests : req'[r] = req[r] \/ req'[r] = Nil \/ Started(req'[r])

Handles(r) == Read(r) \/ Sign(r) \/ Store(r) \/ Answer(r)
RowSteps == Edit \/ Remove \/ Recreate

(* Every step is one of these kinds. *)
LEMMA SessionStepKinds ==
  ASSUME TypeOK, Next
  PROVE  \/ Comings
         \/ \E r \in Requests : Handles(r)
         \/ RowSteps
         \/ Tick
<1>1. ASSUME NEW c \in Clients, FetchKey(c) PROVE Comings
  BY <1>1 DEF FetchKey, Comings
<1>2. ASSUME NEW r \in Requests, NEW c \in Clients, SendLogin(r, c) PROVE Comings
  <2>1. [client |-> c, life |-> pub[c]] \in Keys
    BY <1>2 DEF SendLogin, TypeOK, Keys
  <2> QED BY <1>2, <2>1 DEF SendLogin, Send, Comings, Started, Request, Ops, Phases, TypeOK
<1>3. ASSUME NEW r \in Requests, NEW c \in Clients, SendWithToken(r, c) PROVE Comings
  <2>1. held[c].key \in Keys /\ held[c].iat \in Times /\ held[c].iat # Nil
    BY <1>3, NilAssumption DEF SendWithToken, TypeOK, Held
  <2> QED BY <1>3, <2>1 DEF SendWithToken, Send, Comings, Started, Request, Ops, Phases, TypeOK
<1>4. ASSUME NEW r \in Requests, End(r) PROVE Comings
  BY <1>4 DEF End, Comings, TypeOK
<1>5. ASSUME Restart PROVE Comings
  BY <1>5 DEF Restart, Comings
<1> QED BY <1>1, <1>2, <1>3, <1>4, <1>5 DEF Next, Handles, RowSteps

(* Every step keeps the types. *)
LEMMA SessionTypeStep == TypeOK /\ Shape /\ [Next]_vars => TypeOK'
<1> SUFFICES ASSUME TypeOK, Shape, [Next]_vars PROVE TypeOK'
  OBVIOUS
<1> USE TimeAssumption, NilAssumption
<1>1. CASE UNCHANGED vars
  BY <1>1 DEF vars, TypeOK
<1>2. ASSUME NEW c \in Clients, FetchKey(c) PROVE TypeOK'
  BY <1>2 DEF FetchKey, TypeOK
<1>3. ASSUME NEW r \in Requests, NEW c \in Clients, SendLogin(r, c) PROVE TypeOK'
  <2>1. [client |-> c, life |-> pub[c]] \in Keys
    BY <1>3 DEF SendLogin, TypeOK, Keys
  <2> QED BY <1>3, <2>1 DEF SendLogin, Send, Request, Ops, Phases, TypeOK
<1>4. ASSUME NEW r \in Requests, NEW c \in Clients, SendWithToken(r, c) PROVE TypeOK'
  <2>1. held[c].key \in Keys /\ held[c].iat \in Times
    BY <1>4 DEF SendWithToken, TypeOK, Held
  <2> QED BY <1>4, <2>1 DEF SendWithToken, Send, Request, Ops, Phases, TypeOK
<1>5. ASSUME NEW r \in Requests, Read(r) PROVE TypeOK'
  <2>1. Moved(req[r], "read", account, Nil) \in Request
    BY <1>5 DEF Read, TypeOK, Moved, Request, Phases
  <2> QED BY <1>5, <2>1 DEF Read, TypeOK
<1>6. ASSUME NEW r \in Requests, Sign(r) PROVE TypeOK'
  <2>1. Moved(req[r], "signed", req[r].copy, now) \in Request
    BY <1>6 DEF Sign, TypeOK, Moved, Request, Phases
  <2> QED BY <1>6, <2>1 DEF Sign, TypeOK
<1>7. ASSUME NEW r \in Requests, Store(r) PROVE TypeOK'
  <2>1. Moved(req[r], "stored", req[r].copy, req[r].issued) \in Request
    BY <1>7 DEF Store, Ready, TypeOK, Moved, Request, Phases
  <2>2. account \in Account /\ req[r] \in Request
    BY <1>7 DEF Store, Current, SameId, Ready, TypeOK
  <2>3. req[r].issued \in Tokens /\ SecretOf(r) \in Secrets
    BY <2>2 DEF SecretOf, Request, Tokens, Secrets
  <2>4. account.version + 1 \in 1..MaxVersion /\ account.id \in 1..MaxIds
    BY <1>7, <2>2 DEF Store, Fits, Account
  <2>5. account' \in Account
    BY <1>7, <2>3, <2>4 DEF Store, NextVersion, Account
  <2> QED BY <1>7, <2>1, <2>5 DEF Store, TypeOK
<1>8. ASSUME NEW r \in Requests, Answer(r) PROVE TypeOK'
  <2>1. req[r] \in Request
    BY <1>8 DEF Answer, TypeOK
  <2>2. req[r].op # "logout" => req[r].issued \in Times
    BY <1>8 DEF Answer, Shape, Busy
  <2>3. req[r].op # "logout" => [iat |-> req[r].issued, key |-> req[r].key] \in Held
    BY <2>1, <2>2 DEF Held, Request
  <2> QED BY <1>8, <2>3 DEF Answer, TypeOK
<1>9. ASSUME NEW r \in Requests, End(r) PROVE TypeOK'
  BY <1>9 DEF End, TypeOK
<1>10. ASSUME Edit PROVE TypeOK'
  BY <1>10 DEF Edit, TypeOK, Account, Fits, NextVersion, Tokens, Secrets
<1>11. ASSUME Remove PROVE TypeOK'
  BY <1>11 DEF Remove, TypeOK
<1>12. ASSUME Recreate PROVE TypeOK'
  BY <1>12 DEF Recreate, TypeOK, Account, Tokens, Secrets
<1>13. ASSUME Restart PROVE TypeOK'
  BY <1>13 DEF Restart, TypeOK
<1>14. ASSUME Tick PROVE TypeOK'
  BY <1>14 DEF Tick, TypeOK, Times
<1> QED
  BY <1>1, <1>2, <1>3, <1>4, <1>5, <1>6, <1>7, <1>8, <1>9, <1>10, <1>11, <1>12,
     <1>13, <1>14 DEF Next

(* What Store changes, as its effect on the row and on its own request. *)
LEMMA StoreEffect ==
  ASSUME IInv, NEW r \in Requests, Store(r)
  PROVE  /\ account \in Account /\ account' \in Account
         /\ req[r] \in Request /\ req[r].copy = account
         /\ account'.id = account.id /\ account'.version = account.version + 1
         /\ account'.token = req[r].issued /\ account'.secret = SecretOf(r)
         /\ req'[r].phase = "stored" /\ req'[r].copy = account
         /\ req'[r].issued = req[r].issued /\ req'[r].op = req[r].op
         /\ req'[r].presented = req[r].presented /\ req'[r].key = req[r].key
         /\ \/ req[r].op \in {"login", "refresh"} /\ req[r].phase = "signed"
               /\ req[r].issued \in Times
            \/ req[r].op = "logout" /\ req[r].issued = Nil
         /\ \A q \in Requests \ {r} : req'[q] = req[q]
<1>1. account \in Account /\ req[r] \in Request /\ Busy(r)
  BY DEF Store, Current, SameId, Ready, IInv, TypeOK, Busy
<1>2. req[r].copy = account
  BY DEF Store, Ready, IInv, CurrentCopyIsTheSession
<1>3. \/ req[r].op \in {"login", "refresh"} /\ req[r].phase = "signed"
         /\ req[r].issued \in Times
      \/ req[r].op = "logout" /\ req[r].issued = Nil
  BY <1>1 DEF Store, Ready, IInv, Shape
<1>4. account'.id = account.id /\ account'.version = account.version + 1
      /\ account'.token = req[r].issued /\ account'.secret = SecretOf(r)
  BY DEF Store, NextVersion
<1>5. account' \in Account
  <2>1. req[r].issued \in Tokens /\ SecretOf(r) \in Secrets
    BY <1>1 DEF SecretOf, Request, Tokens, Secrets
  <2>2. account.version + 1 \in 1..MaxVersion /\ account.id \in 1..MaxIds
    BY <1>1, TimeAssumption DEF Store, Fits, Account
  <2> QED BY <2>1, <2>2 DEF Store, NextVersion, Account
<1>6. req' = [req EXCEPT ![r] = Moved(req[r], "stored", req[r].copy, req[r].issued)]
  BY DEF Store
<1> QED BY <1>1, <1>2, <1>3, <1>4, <1>5, <1>6 DEF Moved, IInv, TypeOK

(* The conjuncts of IInv beside the types. *)
Rest ==
  /\ Shape /\ Matched /\ CopiesBehind /\ CurrentCopyIsTheSession
  /\ Past /\ FreshTokens /\ NoAnswerAhead /\ NoClientAhead

(* Requests that start or end change nothing another request relies on. *)
LEMMA ComingsKeep == IInv /\ Comings => Rest'
<1> SUFFICES ASSUME IInv, Comings PROVE Rest'
  OBVIOUS
<1> USE NilAssumption
<1>1. UNCHANGED <<now, nextId, account, held>>
  BY DEF Comings
<1>2. ASSUME NEW r \in Requests, (Loaded(r))'
      PROVE  Loaded(r) /\ req'[r] = req[r]
  BY <1>2 DEF Comings, Loaded, Busy, Started
<1>3. ASSUME NEW r \in Requests, (Busy(r))', req'[r] # req[r]
      PROVE  Started(req'[r])
  BY <1>3 DEF Comings, Busy
<1>4. Shape'
  BY <1>2, <1>3 DEF IInv, Shape, Busy, Loaded, Started, Phases, Ops
<1>5. Matched'
  BY <1>2 DEF IInv, Matched
<1>6. CopiesBehind'
  BY <1>1, <1>2 DEF IInv, CopiesBehind, SameId
<1>7. CurrentCopyIsTheSession'
  BY <1>1, <1>2 DEF IInv, CurrentCopyIsTheSession, Current, SameId, Loaded, Busy
<1>8. Past'
  <2>1. ASSUME NEW r \in Requests, (Busy(r))', req'[r].issued \in Times
        PROVE  req'[r] = req[r]
    BY <1>3, <2>1 DEF Started
  <2> QED BY <1>1, <2>1 DEF IInv, Past, Busy
<1>9. FreshTokens'
  <2>1. ASSUME NEW r \in Requests, (Busy(r))', req'[r].phase = "signed", (Current(r))'
        PROVE  NewerThanAll(req[r].issued)'
    <3>1. Loaded(r) /\ req'[r] = req[r]
      BY <1>2, <2>1 DEF Loaded, Busy
    <3>2. NewerThanAll(req[r].issued)
      BY <1>1, <2>1, <3>1 DEF IInv, FreshTokens, Loaded, Busy, Current, SameId
    <3> QED BY <1>1, <1>2, <3>1, <3>2 DEF NewerThanAll, Loaded, Busy
  <2> QED BY <2>1 DEF FreshTokens
<1>11. NoAnswerAhead'
  BY <1>1, <1>2 DEF IInv, NoAnswerAhead, Loaded, Busy
<1>12. NoClientAhead'
  BY <1>1 DEF IInv, NoClientAhead
<1> QED BY <1>4, <1>5, <1>6, <1>7, <1>8, <1>9, <1>11, <1>12 DEF Rest

(* A request that reads the row holds exactly the row it checked. *)
LEMMA ReadKeeps == ASSUME IInv, NEW r \in Requests, Read(r) PROVE Rest'
<1> USE NilAssumption
<1>1. /\ UNCHANGED <<now, nextId, account, held>>
      /\ account \in Account /\ req[r] \in Request
      /\ req[r].phase = "sent" /\ Busy(r) /\ Accepts(r, account)
  BY DEF Read, IInv, TypeOK, Busy
<1>2. /\ req'[r].phase = "read" /\ req'[r].copy = account /\ req'[r].issued = Nil
      /\ req'[r].op = req[r].op /\ req'[r].key = req[r].key
      /\ req'[r].presented = req[r].presented
      /\ \A q \in Requests \ {r} : req'[q] = req[q]
  BY DEF Read, Moved, IInv, TypeOK
<1>3. Shape'
  BY <1>1, <1>2 DEF IInv, Shape, Loaded, Busy
<1>4. Matched'
  BY <1>1, <1>2 DEF IInv, Matched, Loaded, Busy, Accepts, RefreshMatches
<1>5. CopiesBehind'
  BY <1>1, <1>2 DEF IInv, CopiesBehind, Loaded, Busy, SameId, Account
<1>6. CurrentCopyIsTheSession'
  BY <1>1, <1>2 DEF IInv, CurrentCopyIsTheSession, Current, SameId, Busy
<1>7. Past'
  BY <1>1, <1>2 DEF IInv, Past, Busy
<1>8. FreshTokens'
  BY <1>1, <1>2 DEF IInv, FreshTokens, NewerThanAll, Busy, Current, SameId
<1>9. NoAnswerAhead'
  BY <1>1, <1>2 DEF IInv, NoAnswerAhead, Busy
<1>10. NoClientAhead'
  BY <1>1 DEF IInv, NoClientAhead
<1> QED BY <1>3, <1>4, <1>5, <1>6, <1>7, <1>8, <1>9, <1>10 DEF Rest

(* Tokens are signed with the present time, which nothing issued exceeds. *)
LEMMA SignKeeps == ASSUME IInv, NEW r \in Requests, Sign(r) PROVE Rest'
<1> USE NilAssumption
<1>1. /\ UNCHANGED <<now, nextId, account, held>>
      /\ req[r] \in Request /\ now \in Times
      /\ req[r].phase = "read" /\ Busy(r) /\ req[r].op \in {"login", "refresh"}
  BY DEF Sign, IInv, TypeOK, Busy
<1>2. /\ req'[r].phase = "signed" /\ req'[r].copy = req[r].copy /\ req'[r].issued = now
      /\ req'[r].op = req[r].op /\ req'[r].key = req[r].key
      /\ req'[r].presented = req[r].presented
      /\ \A q \in Requests \ {r} : req'[q] = req[q]
  BY DEF Sign, Moved, IInv, TypeOK
<1>3. Shape'
  BY <1>1, <1>2 DEF IInv, Shape, Loaded, Busy
<1>4. Matched'
  BY <1>1, <1>2 DEF IInv, Matched, Loaded, Busy
<1>5. CopiesBehind'
  BY <1>1, <1>2 DEF IInv, CopiesBehind, Loaded, Busy, SameId
<1>6. CurrentCopyIsTheSession'
  BY <1>1, <1>2 DEF IInv, CurrentCopyIsTheSession, Current, SameId, Busy
<1>7. Past'
  BY <1>1, <1>2 DEF IInv, Past, Busy, Times
<1>8. NewerThanAll(now)
  BY DEF IInv, Past, NewerThanAll
<1>9. FreshTokens'
  <2>1. ASSUME NEW q \in Requests, (Busy(q))', req'[q].phase = "signed", (Current(q))'
        PROVE  NewerThanAll(req[q].issued)'
    <3>1. CASE q = r
      BY <1>1, <1>2, <1>8, <3>1 DEF NewerThanAll, Busy
    <3>2. CASE q # r
      <4>1. NewerThanAll(req[q].issued) /\ req'[q] = req[q]
        BY <1>1, <1>2, <2>1, <3>2 DEF IInv, FreshTokens, Busy, Current, SameId
      <4> QED BY <1>1, <1>2, <4>1 DEF NewerThanAll, Busy
    <3> QED BY <3>1, <3>2
  <2> QED BY <2>1 DEF FreshTokens
<1>10. NoAnswerAhead'
  BY <1>1, <1>2 DEF IInv, NoAnswerAhead, Busy
<1>11. NoClientAhead'
  BY <1>1 DEF IInv, NoClientAhead
<1> QED BY <1>3, <1>4, <1>5, <1>6, <1>7, <1>9, <1>10, <1>11 DEF Rest

(* After a store no other request's copy is current any more. *)
LEMMA StoreOutdates ==
  ASSUME IInv, NEW r \in Requests, Store(r), NEW q \in Requests, (Loaded(q))'
  PROVE  /\ Loaded(q) /\ req'[q].copy = req[q].copy
         /\ (SameId(q))' => /\ req'[q].copy.version \in Nat
                           /\ req'[q].copy.version < account'.version
         /\ ~ (Current(q))'
<1> USE NilAssumption
<1>1. account # Nil /\ account' # Nil
  BY StoreEffect
<1>2. account.version \in Nat /\ account'.version = account.version + 1
  BY StoreEffect DEF Account
<1>3. Loaded(q) /\ req'[q].copy = req[q].copy
  <2>1. Loaded(r)
    BY DEF Store, Ready, Loaded, Busy
  <2> QED BY <2>1, StoreEffect DEF Loaded, Busy
<1>4. ASSUME (SameId(q))'
      PROVE  /\ req'[q].copy.version \in Nat
             /\ req'[q].copy.version < account'.version
  <2>1. req[q].copy \in Account
    BY <1>3 DEF IInv, Shape
  <2>2. SameId(q)
    BY <1>1, <1>3, <1>4, StoreEffect DEF SameId
  <2>3. req[q].copy.version <= account.version
    BY <1>3, <2>2 DEF IInv, CopiesBehind
  <2> QED BY <1>2, <1>3, <2>1, <2>3, TimeAssumption DEF Account
<1> QED BY <1>2, <1>3, <1>4 DEF Current

LEMMA StoreKeeps == ASSUME IInv, NEW r \in Requests, Store(r) PROVE Rest'
<1> USE NilAssumption
<1>1. UNCHANGED <<now, nextId, held>>
  BY DEF Store
<1>2. account # Nil /\ account' # Nil
  BY StoreEffect
<1>3. account.version \in Nat /\ account'.version = account.version + 1
  BY StoreEffect DEF Account
<1>4. ASSUME NEW q \in Requests, (Loaded(q))' PROVE Loaded(q) /\ req'[q].copy = req[q].copy
  BY <1>4, StoreOutdates
<1>5. ASSUME NEW q \in Requests, (Loaded(q))', (SameId(q))'
      PROVE  /\ req'[q].copy.version \in Nat
             /\ req'[q].copy.version < account'.version
  BY <1>5, StoreOutdates
<1>6. ASSUME NEW q \in Requests, (Loaded(q))' PROVE ~ (Current(q))'
  BY <1>6, StoreOutdates
<1>7. Shape'
  <2>1. ASSUME NEW q \in Requests \ {r} PROVE req'[q] = req[q]
    BY StoreEffect
  <2>2. Busy(r) /\ Loaded(r)
    BY DEF Store, Ready, Loaded, Busy
  <2> QED BY <2>1, <2>2, StoreEffect DEF IInv, Shape, Loaded, Busy
<1>8. Matched'
  BY StoreEffect DEF IInv, Matched, Loaded, Busy
<1>9. CopiesBehind'
  <2>1. account'.id < nextId'
    BY <1>1, <1>2, StoreEffect DEF IInv, CopiesBehind
  <2>2. ASSUME NEW q \in Requests, (Loaded(q))'
        PROVE  /\ req'[q].copy.id < nextId'
               /\ (SameId(q))' => req'[q].copy.version <= account'.version
    BY <1>1, <1>3, <1>4, <1>5, <2>2, StoreEffect DEF IInv, CopiesBehind, Account
  <2> QED BY <2>1, <2>2 DEF CopiesBehind
<1>10. CurrentCopyIsTheSession'
  BY <1>6 DEF CurrentCopyIsTheSession, Loaded, Busy
<1>11. Busy(r)
  BY DEF Store, Ready, Busy
<1>12. Past'
  BY <1>1, <1>11, StoreEffect DEF IInv, Past, Busy
<1>13. FreshTokens'
  BY <1>6 DEF FreshTokens, Loaded, Busy
<1>14. req[r].issued \in Times => NewerThanAll(req[r].issued)
  BY <1>11, StoreEffect DEF Store, IInv, FreshTokens
<1>15. NoAnswerAhead'
  BY <1>14, StoreEffect DEF NoAnswerAhead, NewerThanAll, Busy, Times
<1>16. NoClientAhead'
  BY <1>1, <1>14, StoreEffect DEF NoClientAhead, NewerThanAll
<1> QED BY <1>7, <1>8, <1>9, <1>10, <1>12, <1>13, <1>15, <1>16 DEF Rest

(* An answer reaches the client only after its tokens were stored. *)
LEMMA AnswerKeeps == ASSUME IInv, NEW r \in Requests, Answer(r) PROVE Rest'
<1> USE NilAssumption
<1>1. /\ UNCHANGED <<now, nextId, account>>
      /\ Busy(r) /\ req[r].phase = "stored"
      /\ req'[r] = Nil
      /\ \A q \in Requests \ {r} : req'[q] = req[q]
  BY DEF Answer, Busy, IInv, TypeOK
<1>2. ASSUME NEW c \in Clients, held'[c] # Nil, held'[c] # held[c]
      PROVE  held'[c].iat = req[r].issued /\ req[r].issued \in Times
  <2>1. req[r].op # "logout"
    BY <1>2 DEF Answer, IInv, TypeOK
  <2>2. held'[c] = [iat |-> req[r].issued, key |-> req[r].key]
    BY <1>2, <2>1 DEF Answer, IInv, TypeOK
  <2> QED BY <1>1, <2>1, <2>2 DEF IInv, Shape
<1>3. Shape'
  BY <1>1 DEF IInv, Shape, Loaded, Busy
<1>4. Matched'
  BY <1>1 DEF IInv, Matched, Loaded, Busy
<1>5. CopiesBehind'
  BY <1>1 DEF IInv, CopiesBehind, Loaded, Busy, SameId
<1>6. CurrentCopyIsTheSession'
  BY <1>1 DEF IInv, CurrentCopyIsTheSession, Current, SameId, Busy
<1>7. Past'
  BY <1>1, <1>2 DEF IInv, Past, Busy
<1>8. FreshTokens'
  <2>1. ASSUME NEW q \in Requests, (Busy(q))', req'[q].phase = "signed", (Current(q))'
        PROVE  NewerThanAll(req[q].issued)'
    <3>1. NewerThanAll(req[q].issued) /\ req'[q] = req[q]
      BY <1>1, <2>1 DEF IInv, FreshTokens, Busy, Current, SameId
    <3> QED BY <1>1, <1>2, <3>1 DEF NewerThanAll, Busy
  <2> QED BY <2>1 DEF FreshTokens
<1>9. NoAnswerAhead'
  BY <1>1 DEF IInv, NoAnswerAhead, Busy
<1>10. NoClientAhead'
  BY <1>1, <1>2 DEF IInv, NoClientAhead, NoAnswerAhead
<1> QED BY <1>3, <1>4, <1>5, <1>6, <1>7, <1>8, <1>9, <1>10 DEF Rest

(* Edits, deletion and re-creation leave every copy outdated. *)
LEMMA RowStepsOutdate ==
  ASSUME IInv, RowSteps
  PROVE  /\ account' # Nil => account'.id < nextId'
         /\ \A r \in Requests : Loaded(r) =>
              /\ req[r].copy \in Account
              /\ req[r].copy.id < nextId'
              /\ account' # Nil /\ account'.id = req[r].copy.id =>
                   req[r].copy.version < account'.version
              /\ ~ (Current(r))'
<1> USE NilAssumption
<1>1. UNCHANGED req
  BY DEF RowSteps, Edit, Remove, Recreate
<1>3. \A r \in Requests : Loaded(r) => req[r].copy \in Account
  BY DEF IInv, Shape
<1>4. /\ account' # Nil => account'.id < nextId'
      /\ \A r \in Requests : Loaded(r) =>
           /\ req[r].copy.id < nextId'
           /\ account' # Nil /\ account'.id = req[r].copy.id =>
                req[r].copy.version < account'.version
  <2>1. CASE Edit
    <3>1. account \in Account /\ account'.id = account.id
          /\ account'.version = account.version + 1 /\ nextId' = nextId
      BY <2>1 DEF Edit, NextVersion, IInv, TypeOK
    <3> QED BY <1>3, <2>1, <3>1 DEF Edit, IInv, CopiesBehind, SameId, Account
  <2>2. CASE Remove
    BY <2>2 DEF Remove, IInv, CopiesBehind
  <2>3. CASE Recreate
    BY <1>3, <2>3, TimeAssumption DEF Recreate, IInv, TypeOK, CopiesBehind, Account
  <2> QED BY <2>1, <2>2, <2>3 DEF RowSteps
<1>5. ASSUME NEW r \in Requests, Loaded(r) PROVE ~ (Current(r))'
  BY <1>1, <1>3, <1>4, <1>5, TimeAssumption
  DEF Current, SameId, Account, RowSteps, Edit, Remove, Recreate, IInv, TypeOK, NextVersion
<1> QED BY <1>3, <1>4, <1>5

LEMMA RowStepsSessionKeep == IInv /\ RowSteps => Rest'
<1> SUFFICES ASSUME IInv, RowSteps PROVE Rest'
  OBVIOUS
<1> USE NilAssumption
<1>1. UNCHANGED <<now, held, req>>
  BY DEF RowSteps, Edit, Remove, Recreate
<1>2. account' # Nil /\ account'.token \in Times =>
        account # Nil /\ account'.token = account.token
  BY DEF RowSteps, Edit, Remove, Recreate
<1>3. \A r \in Requests : Loaded(r) => req[r].copy \in Account
  BY DEF IInv, Shape
<1>4. /\ account' # Nil => account'.id < nextId'
      /\ \A r \in Requests : Loaded(r) =>
           /\ req[r].copy.id < nextId'
           /\ account' # Nil /\ account'.id = req[r].copy.id =>
                req[r].copy.version < account'.version
  BY RowStepsOutdate
<1>5. ASSUME NEW r \in Requests, Loaded(r) PROVE ~ (Current(r))'
  BY <1>5, RowStepsOutdate
<1>6. Shape' /\ Matched'
  BY <1>1 DEF IInv, Shape, Matched, Loaded, Busy
<1>7. CopiesBehind'
  BY <1>1, <1>3, <1>4 DEF CopiesBehind, Loaded, Busy, SameId, Account, RowSteps, Edit,
     Remove, Recreate, IInv, TypeOK, NextVersion
<1>8. CurrentCopyIsTheSession' /\ FreshTokens'
  BY <1>1, <1>5 DEF CurrentCopyIsTheSession, FreshTokens, Loaded, Busy
<1>9. Past'
  BY <1>1, <1>2 DEF IInv, Past, Busy
<1>10. NoAnswerAhead' /\ NoClientAhead'
  BY <1>1, <1>2 DEF IInv, NoAnswerAhead, NoClientAhead, Busy
<1> QED BY <1>6, <1>7, <1>8, <1>9, <1>10 DEF Rest

(* Time only makes what was issued older; a step that changes nothing, too. *)
LEMMA TickKeeps == IInv /\ (Tick \/ UNCHANGED vars) => Rest'
<1> SUFFICES ASSUME IInv, Tick \/ UNCHANGED vars PROVE Rest'
  OBVIOUS
<1>1. UNCHANGED <<nextId, account, held, req>> /\ now \in Nat /\ now' >= now
  BY TimeAssumption DEF Tick, vars, IInv, TypeOK, Times
<1>2. ASSUME NEW t \in Times, t <= now PROVE t <= now'
  BY <1>1, <1>2 DEF Times, Tick, vars
<1>3. \A c \in Clients : held[c] # Nil => held[c].iat \in Times
  BY DEF IInv, TypeOK, Held
<1>4. Past'
  BY <1>1, <1>2, <1>3 DEF IInv, Past, Busy
<1> QED
  BY <1>1, <1>4 DEF IInv, Rest, Shape, Matched, CopiesBehind, CurrentCopyIsTheSession,
     FreshTokens, NewerThanAll, NoAnswerAhead, NoClientAhead, Loaded, Busy, Current, SameId

(* The inductive invariant holds at the start. *)
LEMMA InitSession == Init => IInv
<1> SUFFICES ASSUME Init PROVE IInv
  OBVIOUS
<1>1. TypeOK
  BY TimeAssumption DEF Init, TypeOK, Times, Account, Tokens, Secrets
<1> QED
  BY <1>1, NilAssumption DEF Init, IInv, Shape, Matched, CopiesBehind,
     CurrentCopyIsTheSession, Past, FreshTokens, NoAnswerAhead, NoClientAhead, Loaded, Busy

(* IInv is an invariant: what TLC finds on its instances holds for all. *)
THEOREM SessionInvariance == Spec => []IInv
<1>1. IInv /\ [Next]_vars => IInv'
  <2> SUFFICES ASSUME IInv, [Next]_vars PROVE IInv'
    OBVIOUS
  <2>1. TypeOK'
    BY SessionTypeStep DEF IInv
  <2>2. Rest'
    BY SessionStepKinds, ComingsKeep, ReadKeeps, SignKeeps, StoreKeeps, AnswerKeeps,
       RowStepsSessionKeep, TickKeeps DEF IInv, Handles
  <2> QED BY <2>1, <2>2 DEF IInv, Rest
<1> QED BY InitSession, <1>1, PTL DEF Spec

(* Every variable keeps its type (TypeOK). *)
THEOREM SessionTypeCorrect == Spec => []TypeOK
<1>1. IInv => TypeOK
  BY DEF IInv
<1> QED BY SessionInvariance, <1>1, PTL

(* A copy whose id and version are still the row's is the row: what a        *)
(* request checked is what it acts on (CurrentCopyIsTheSession).             *)
THEOREM CopyIsTheSession == Spec => []CurrentCopyIsTheSession
<1>1. IInv => CurrentCopyIsTheSession
  BY DEF IInv
<1> QED BY SessionInvariance, <1>1, PTL

(* No client holds tokens newer than the stored one (NoClientAhead).         *)
THEOREM ClientsBehind == Spec => []NoClientAhead
<1>1. IInv => NoClientAhead
  BY DEF IInv
<1> QED BY SessionInvariance, <1>1, PTL

-----------------------------------------------------------------------------
(* Seconds close for good. *)

(* A request that may still store its tokens. *)
Storable(q) == Busy(q) /\ req[q].phase = "signed" /\ Current(q)

(* Only signing makes a request one that may store tokens, and it signs with *)
(* the present second; no step turns an outdated copy into a current one.    *)
LEMMA OnlyPresentTokens ==
  ASSUME IInv, [Next]_vars, NEW q \in Requests, (Storable(q))'
  PROVE  \/ Storable(q) /\ req'[q].issued = req[q].issued
         \/ req'[q].issued = now
<1> USE NilAssumption
<1> DEFINE Goal == \/ Storable(q) /\ req'[q].issued = req[q].issued
                   \/ req'[q].issued = now
<1>1. ASSUME UNCHANGED account, req'[q] = req[q] PROVE Goal
  BY <1>1 DEF Storable, Busy, Current, SameId
<1>2. CASE Comings
  <2>1. req'[q] = req[q]
    BY <1>2 DEF Comings, Storable, Busy, Started
  <2> QED BY <1>1, <1>2, <2>1 DEF Comings
<1>3. ASSUME NEW r \in Requests, Read(r) PROVE Goal
  <2>1. q # r
    BY <1>3 DEF Read, Moved, Storable, IInv, TypeOK
  <2> QED BY <1>1, <1>3, <2>1 DEF Read, IInv, TypeOK
<1>4. ASSUME NEW r \in Requests, Sign(r) PROVE Goal
  <2>1. CASE q = r
    BY <1>4, <2>1 DEF Sign, Moved, IInv, TypeOK
  <2>2. CASE q # r
    BY <1>1, <1>4, <2>2 DEF Sign, IInv, TypeOK
  <2> QED BY <2>1, <2>2
<1>5. ASSUME NEW r \in Requests, Store(r) PROVE Goal
  BY <1>5, StoreOutdates DEF Storable, Loaded, Busy
<1>6. ASSUME NEW r \in Requests, Answer(r) PROVE Goal
  <2>1. q # r
    BY <1>6 DEF Answer, Storable, Busy, IInv, TypeOK
  <2> QED BY <1>1, <1>6, <2>1 DEF Answer, IInv, TypeOK
<1>7. CASE RowSteps
  BY <1>7, RowStepsOutdate
  DEF Storable, Loaded, Busy, RowSteps, Edit, Remove, Recreate
<1>8. CASE Tick \/ UNCHANGED vars
  BY <1>1, <1>8 DEF Tick, vars
<1> QED
  BY <1>2, <1>3, <1>4, <1>5, <1>6, <1>7, <1>8, SessionStepKinds DEF IInv, Handles

(* A closed second stays closed, whatever happens. *)
LEMMA ClosedStays ==
  ASSUME IInv, IInv', [Next]_vars
  PROVE  Closed \subseteq Closed'
<1> SUFFICES ASSUME NEW t \in Closed PROVE t \in Closed'
  OBVIOUS
<1>1. t \in Times /\ t < now
  BY DEF Closed
<1>2. now \in Nat /\ now' \in Nat /\ now <= now'
  <2>1. now \in Times /\ now' \in Times
    BY DEF IInv, TypeOK
  <2>2. now' = now \/ now' = now + 1
    BY SessionStepKinds
    DEF IInv, Comings, Handles, Read, Sign, Store, Answer, RowSteps, Edit, Remove, Recreate,
        Tick, vars
  <2> QED BY <2>1, <2>2, TimeAssumption DEF Times
<1>3. ASSUME NEW q \in Requests, (Storable(q))' PROVE t < req'[q].issued
  <2>1. CASE Storable(q) /\ req'[q].issued = req[q].issued
    BY <2>1 DEF Closed, Storable, Busy
  <2>2. CASE req'[q].issued = now
    BY <1>1, <2>2
  <2> QED BY <1>3, <2>1, <2>2, OnlyPresentTokens
<1>4. t < now'
  BY <1>1, <1>2, TimeAssumption DEF Times
<1> QED BY <1>1, <1>3, <1>4 DEF Closed, Storable, Busy

(* What a token has replaced is closed, and what is closed is not stored. *)
LEMMA TokensClose ==
  ASSUME IInv, account # Nil, account.token \in Times, NEW t \in Times, t < account.token
  PROVE  t \in Closed
<1>1. t < now
  BY TimeAssumption DEF IInv, TypeOK, Past, Times
<1>2. ASSUME NEW r \in Requests, Storable(r) PROVE t < req[r].issued
  <2>1. account.token <= req[r].issued
    BY <1>2 DEF Storable, IInv, FreshTokens, NewerThanAll
  <2>2. req[r].issued \in Times
    BY <1>2 DEF Storable, IInv, Shape
  <2> QED BY <2>1, <2>2, TimeAssumption DEF Times
<1> QED BY <1>1, <1>2 DEF Closed, Storable, Busy

(* Only open seconds are stored, and with them all before them close. *)
LEMMA StoredIsOpen ==
  ASSUME IInv, IInv', NEW r \in Requests, Store(r), req[r].op # "logout"
  PROVE  /\ req[r].issued \in Times \ Closed
         /\ \A u \in Times : u < req[r].issued => u \in Closed'
<1>1. /\ Storable(r) /\ req[r].issued \in Times
      /\ account' # Nil /\ account'.token = req[r].issued
  <2>1. Busy(r) /\ Current(r)
    BY DEF Store, Ready, Busy
  <2> QED BY <2>1, StoreEffect, NilAssumption DEF Storable
<1>2. req[r].issued \notin Closed
  BY <1>1, TimeAssumption DEF Closed, Storable, Busy, Times
<1>3. ASSUME NEW u \in Times, u < req[r].issued PROVE u \in Closed'
  <2>1. /\ now' \in Times /\ req[r].issued <= now'
    BY <1>1 DEF Past, IInv, TypeOK
  <2>2. u < now'
    BY <1>1, <1>3, <2>1, TimeAssumption DEF Times
  <2>3. \A q \in Requests : ~ (Storable(q))'
    BY StoreOutdates DEF Storable, Loaded, Busy
  <2> QED BY <2>2, <2>3 DEF Closed, Storable, Busy
<1> QED BY <1>1, <1>2, <1>3

(* A token that a later one has replaced never is in a row again, across     *)
(* logouts, edits, restarts, deletion and re-creation (SpentTokensStaySpent).*)
THEOREM SpentTokens == Spec => SpentTokensStaySpent
<1> DEFINE Spent(t) == account # Nil /\ account.token \in Times /\ account.token > t
           Away(t) == account # Nil => account.token # t
           Gone(t) == t \in Closed /\ Away(t)
<1> SUFFICES ASSUME NEW t \in Times
             PROVE  Spec => [](Spent(t) => []Away(t))
  BY DEF SpentTokensStaySpent
<1>1. IInv /\ Spent(t) => Gone(t)
  BY TokensClose, TimeAssumption DEF Times
<1>2. IInv /\ IInv' /\ Gone(t) /\ [Next]_vars => Gone(t)'
  <2> SUFFICES ASSUME IInv, IInv', Gone(t), [Next]_vars PROVE Gone(t)'
    OBVIOUS
  <2>1. t \in Closed'
    BY ClosedStays
  <2>2. ASSUME account' # Nil PROVE account'.token # t
    <3>1. CASE account # Nil /\ account'.token = account.token
      BY <3>1
    <3>2. ASSUME NEW r \in Requests, Store(r) PROVE account'.token # t
      BY <3>2, StoreEffect, StoredIsOpen, NilAssumption
    <3>3. CASE RowSteps
      BY <2>2, <3>1, <3>3, NilAssumption DEF RowSteps, Edit, Remove, Recreate
    <3>4. CASE UNCHANGED account
      BY <2>2, <3>1, <3>4
    <3> QED
      BY <3>2, <3>3, <3>4, SessionStepKinds
      DEF IInv, Comings, Handles, Read, Sign, Answer, Tick, vars
  <2> QED BY <2>1, <2>2
<1>3. Gone(t) => Away(t)
  OBVIOUS
<1> QED BY SessionInvariance, <1>1, <1>2, <1>3, PTL DEF Spec

(* A refresh replaces exactly the token presented to it, and keeps the       *)
(* secret it was signed with (RefreshKeepsTheSession).                       *)
THEOREM RefreshKeeps == Spec => RefreshKeepsTheSession
<1> DEFINE Keeps == \A r \in Requests :
                      Store(r) /\ req[r].op = "refresh" =>
                        /\ account.token = req[r].presented
                        /\ account'.secret = account.secret
<1>1. ASSUME IInv, [Next]_vars PROVE [Keeps]_vars
  <2> SUFFICES ASSUME NEW r \in Requests, Store(r), req[r].op = "refresh"
               PROVE  /\ account.token = req[r].presented
                      /\ account'.secret = account.secret
    OBVIOUS
  <2>1. Loaded(r)
    BY DEF Store, Ready, Loaded, Busy
  <2> QED BY <1>1, <2>1, StoreEffect DEF IInv, Matched, SecretOf
<1> QED BY SessionInvariance, <1>1, PTL DEF Spec, RefreshKeepsTheSession

(* Once the signing key is gone, only a login checked afterwards brings one  *)
(* back (LogoutIsFinal).                                                     *)
THEOREM LogoutStays == Spec => LogoutIsFinal
<1> DEFINE Final == account # Nil /\ account' # Nil /\ account.secret \notin Keys
                      /\ account'.secret \in Keys
                    => \E r \in Requests : /\ Store(r) /\ req[r].op = "login"
                                           /\ req[r].copy.secret \notin Keys
<1>1. ASSUME IInv, [Next]_vars PROVE [Final]_vars
  <2> SUFFICES ASSUME Next, account # Nil, account' # Nil, account.secret \notin Keys,
                      account'.secret \in Keys
               PROVE  \E r \in Requests : /\ Store(r) /\ req[r].op = "login"
                                          /\ req[r].copy.secret \notin Keys
    BY <1>1
  <2>1. ~ RowSteps
    BY NilAssumption DEF RowSteps, Edit, Remove, Recreate
  <2>2. account' # account
    OBVIOUS
  <2>3. PICK r \in Requests : Store(r)
    BY <1>1, <2>1, <2>2, SessionStepKinds
    DEF IInv, Comings, Handles, Read, Sign, Answer, Tick
  <2>4. /\ req[r] \in Request /\ req[r].copy = account
        /\ account'.secret = SecretOf(r) /\ Loaded(r)
    <3>1. Loaded(r)
      BY <2>3 DEF Store, Ready, Loaded, Busy
    <3> QED BY <1>1, <2>3, <3>1, StoreEffect
  <2>5. req[r].op # "logout"
    BY <2>4, NilAssumption DEF SecretOf
  <2>6. req[r].op # "refresh"
    BY <1>1, <2>4, <2>5 DEF IInv, Matched, SecretOf
  <2>7. req[r].op \in {"login", "refresh", "logout"}
    BY <1>1, <2>3, StoreEffect
  <2> QED BY <2>3, <2>4, <2>5, <2>6, <2>7
<1> QED BY SessionInvariance, <1>1, PTL DEF Spec, LogoutIsFinal

-----------------------------------------------------------------------------
(* Session implements OneSession: Store is the step in which a request acts. *)

(* A request that stores its session acts on the session as it is.           *)
LEMMA StoreIsOneStep ==
  ASSUME IInv, IInv', NEW r \in Requests, Store(r)
  PROVE  Abstract!LogIn(r) \/ Abstract!Refresh(r) \/ Abstract!LogOut(r)
<1> USE NilAssumption
<1>1. /\ account \in Account /\ account' \in Account /\ req[r] \in Request
      /\ account # Nil /\ account' # Nil /\ UNCHANGED held /\ Loaded(r)
      /\ account'.token = req[r].issued /\ account'.secret = SecretOf(r)
  <2>1. UNCHANGED held /\ Loaded(r)
    BY DEF Store, Ready, Loaded, Busy
  <2> QED BY <2>1, StoreEffect
<1>2. /\ TheSession = [token |-> account.token, secret |-> account.secret]
      /\ TheSession' = [token |-> req[r].issued, secret |-> SecretOf(r)]
      /\ TheSession # Nil
  <2>1. [token |-> account.token, secret |-> account.secret] \in Seen
    BY <1>1 DEF Seen, Account
  <2> QED BY <1>1, <2>1 DEF TheSession
<1>3. Replies[r] = Nil
  BY <1>1 DEF Replies, Told, Store, Ready
<1>4. Replies' = [Replies EXCEPT ![r] =
        [op |-> req[r].op, client |-> req[r].client, presented |-> req[r].presented,
         iat |-> req[r].issued, key |-> req[r].key]]
  <2>1. req' = [req EXCEPT ![r] = Moved(req[r], "stored", req[r].copy, req[r].issued)]
    BY DEF Store
  <2>2. ASSUME NEW q \in Requests \ {r} PROVE Told(q)' = Told(q)
    BY <2>1 DEF Told, IInv, TypeOK
  <2>3. Told(r)' = [op |-> req[r].op, client |-> req[r].client,
                    presented |-> req[r].presented,
                    iat |-> req[r].issued, key |-> req[r].key]
    <3>1. req'[r] = Moved(req[r], "stored", req[r].copy, req[r].issued)
      BY <2>1 DEF IInv, TypeOK
    <3>2. req'[r] # Nil
      BY <3>1, <1>1, StoreEffect DEF IInv, TypeOK, Store, Moved, Request, Phases
    <3> QED BY <3>1, <3>2 DEF Told, Moved
  <2> QED BY <2>2, <2>3 DEF Replies
<1>5. Closed \subseteq Closed'
  BY ClosedStays DEF Next
<1>6. req[r].client \in Clients /\ req[r].key \in Keys
  BY <1>1 DEF Request
<1>7. CASE req[r].op = "logout"
  <2>1. req[r].issued = Nil /\ SecretOf(r) = Nil /\ req[r].presented \in Times
    BY <1>1, <1>7, StoreEffect DEF SecretOf, IInv, Shape, Loaded, Request
  <2> QED
    BY <1>1, <1>2, <1>3, <1>4, <1>5, <1>6, <1>7, <2>1
    DEF Abstract!LogOut, Abstract!Tell, Abstract!Empty, Abstract!Times, Times
<1>8. ASSUME req[r].op # "logout"
      PROVE  /\ req[r].issued \in Abstract!Times
             /\ Abstract!Later(req[r].issued)
             /\ SecretOf(r) = req[r].key
  BY <1>5, <1>8, StoredIsOpen DEF Abstract!Later, Abstract!Times, Times, SecretOf
<1>9. CASE req[r].op = "login"
  <2>1. req[r].presented = Nil
    BY <1>1, <1>9 DEF IInv, Shape, Loaded
  <2> QED
    BY <1>1, <1>2, <1>3, <1>4, <1>6, <1>8, <1>9, <2>1 DEF Abstract!LogIn, Abstract!Tell
<1>10. CASE req[r].op = "refresh"
  <2>1. /\ req[r].presented \in Times /\ account.token = req[r].presented
        /\ account.secret = req[r].key
    BY <1>1, <1>10, StoreEffect DEF IInv, Shape, Matched, Loaded, Request
  <2> QED
    BY <1>1, <1>2, <1>3, <1>4, <1>6, <1>8, <1>10, <2>1
    DEF Abstract!Refresh, Abstract!Tell, Abstract!Times, Times
<1> QED BY <1>7, <1>9, <1>10, StoreEffect

(* The answer tells the client what its request did. *)
LEMMA AnswerDelivers ==
  ASSUME IInv, NEW r \in Requests, Answer(r)
  PROVE  Abstract!Deliver(r)
<1> USE NilAssumption
<1>1. /\ req[r] \in Request /\ req[r].phase = "stored" /\ UNCHANGED <<now, account>>
      /\ req' = [req EXCEPT ![r] = Nil]
      /\ held' = [held EXCEPT ![req[r].client] =
           IF req[r].op = "logout" THEN Nil
           ELSE [iat |-> req[r].issued, key |-> req[r].key]]
  BY DEF Answer, IInv, TypeOK
<1>2. UNCHANGED TheSession
  BY <1>1 DEF TheSession
<1>3. UNCHANGED Closed
  <2>1. ASSUME NEW q \in Requests PROVE Storable(q)' <=> Storable(q)
    BY <1>1 DEF Storable, Busy, Current, SameId, IInv, TypeOK
  <2>2. ASSUME NEW q \in Requests, Storable(q) PROVE req'[q] = req[q]
    BY <1>1, <2>2 DEF Storable, IInv, TypeOK
  <2> QED BY <1>1, <2>1, <2>2 DEF Closed, Storable, Busy
<1>4. Replies[r] = [op |-> req[r].op, client |-> req[r].client,
                    presented |-> req[r].presented,
                    iat |-> req[r].issued, key |-> req[r].key]
  BY <1>1 DEF Replies, Told
<1>5. Replies[r] # Nil
  <2>1. Replies[r] \in Did
    BY <1>1, <1>4 DEF Did, Request
  <2> QED BY <2>1
<1>6. Replies' = [Replies EXCEPT ![r] = Nil]
  BY <1>1 DEF Replies, Told, IInv, TypeOK
<1> QED BY <1>1, <1>2, <1>3, <1>4, <1>5, <1>6 DEF Abstract!Deliver

(* What other steps do to the requests loses answers at most. *)
LEMMA OthersOnlyLose ==
  ASSUME IInv, Comings \/ \E r \in Requests : Read(r) \/ Sign(r)
  PROVE  \E lost \in SUBSET Requests :
           Replies' = [r \in Requests |-> IF r \in lost THEN Nil ELSE Replies[r]]
<1> USE NilAssumption
<1> DEFINE lost == {r \in Requests : Told(r)' = Nil}
<1>1. ASSUME NEW r \in Requests, Told(r)' # Nil PROVE Told(r)' = Told(r)
  <2>1. req'[r] # Nil /\ req'[r].phase = "stored"
    BY <1>1 DEF Told
  <2>2. req'[r] = req[r]
    <3>1. CASE Comings
      BY <2>1, <3>1 DEF Comings, Started
    <3>2. ASSUME NEW q \in Requests, Read(q) \/ Sign(q) PROVE req'[r] = req[r]
      BY <2>1, <3>2 DEF Read, Sign, Moved, IInv, TypeOK
    <3> QED BY <3>1, <3>2
  <2> QED BY <2>2 DEF Told
<1>2. ASSUME NEW r \in Requests
      PROVE  Told(r)' = IF r \in lost THEN Nil ELSE Told(r)
  BY <1>1, <1>2
<1>3. Replies' = [r \in Requests |-> IF r \in lost THEN Nil ELSE Replies[r]]
  BY <1>2 DEF Replies
<1> QED BY <1>3

(* Every request that succeeds has acted on the session in one step, and its *)
(* client is told what that step did: Session implements OneSession.         *)
THEOREM SessionRefinement == Spec => ImplementsOneSession
<1> USE NilAssumption
<1>1. Init => Abstract!Init
  <2> SUFFICES ASSUME Init PROVE Abstract!Init
    OBVIOUS
  <2>1. TheSession = Abstract!Empty
    <3>1. account \in Account
      BY TimeAssumption DEF Init, Account, Tokens, Secrets
    <3> QED BY <3>1 DEF Init, TheSession, Abstract!Empty
  <2>2. Closed = {}
    BY TimeAssumption DEF Init, Closed, Times
  <2> QED BY <2>1, <2>2 DEF Init, Abstract!Init, Replies, Told
<1>2. ASSUME IInv, IInv', [Next]_vars
      PROVE  [Abstract!Next]_(Abstract!vars)
  <2>1. Closed \subseteq Closed'
    BY <1>2, ClosedStays
  <2>2. CASE Comings \/ \E r \in Requests : Read(r) \/ Sign(r)
    <3>1. UNCHANGED <<TheSession, held>>
      BY <2>2 DEF Comings, Read, Sign, TheSession
    <3>2. Abstract!Lose
      BY <1>2, <2>1, <2>2, <3>1, OthersOnlyLose DEF Abstract!Lose
    <3> QED BY <3>2 DEF Abstract!Next
  <2>3. ASSUME NEW r \in Requests, Store(r) PROVE Abstract!Next
    BY <1>2, <2>3, StoreIsOneStep DEF Abstract!Next
  <2>4. ASSUME NEW r \in Requests, Answer(r) PROVE Abstract!Next
    BY <1>2, <2>4, AnswerDelivers DEF Abstract!Next
  <2>5. CASE RowSteps
    <3>1. UNCHANGED <<Replies, held>>
      BY <2>5 DEF RowSteps, Edit, Remove, Recreate, Replies, Told
    <3>2. ASSUME NEW a \in Account PROVE [token |-> a.token, secret |-> a.secret] # Nil
      <4>1. [token |-> a.token, secret |-> a.secret] \in Seen
        BY DEF Seen, Account
      <4> QED BY <4>1
    <3>3. Abstract!Row
      <4>1. CASE Edit
        BY <1>2, <2>1, <3>1, <3>2, <4>1
        DEF Edit, IInv, TypeOK, TheSession, Abstract!Row
      <4>2. CASE Remove
        BY <1>2, <2>1, <3>1, <3>2, <4>2
        DEF Remove, IInv, TypeOK, TheSession, Abstract!Row
      <4>3. CASE Recreate
        <5>1. PICK tok \in {Masked, Nil}, sec \in {Masked, Nil} :
                account' = [id |-> nextId, version |-> 1, token |-> tok, secret |-> sec]
          BY <4>3 DEF Recreate
        <5>2. account' \in Account /\ account = Nil
          <6>1. account' # Nil
            BY <1>2, <4>3, <5>1, TimeAssumption
            DEF Recreate, IInv, TypeOK, Account, Tokens, Secrets
          <6> QED BY <1>2, <4>3, <6>1 DEF Recreate, IInv, TypeOK
        <5>3. TheSession = Nil /\ TheSession' = [token |-> tok, secret |-> sec]
          BY <5>1, <5>2 DEF TheSession
        <5> QED BY <2>1, <3>1, <5>3 DEF Abstract!Row
      <4> QED BY <2>5, <4>1, <4>2, <4>3 DEF RowSteps
    <3> QED BY <3>3 DEF Abstract!Next
  <2>6. CASE Tick \/ UNCHANGED vars
    <3>1. UNCHANGED <<TheSession, held, Replies>>
      BY <2>6 DEF Tick, vars, TheSession, Replies, Told
    <3>2. Abstract!Close
      BY <2>1, <3>1 DEF Abstract!Close
    <3> QED BY <3>2 DEF Abstract!Next
  <2> QED
    BY <1>2, <2>2, <2>3, <2>4, <2>5, <2>6, SessionStepKinds DEF IInv, Handles
<1> QED
  BY SessionInvariance, <1>1, <1>2, PTL DEF Spec, ImplementsOneSession, Abstract!Spec
=============================================================================
