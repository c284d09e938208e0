--------------------------- MODULE Request_proofs ---------------------------
(***************************************************************************)
(* A request, for any roles, documents, tables and bodies.                 *)
(*                                                                         *)
(* Every step of a request is a Merge or leaves the privileges alone, so   *)
(* RequestSpec implements Spec and what Privileges_proofs proves of the    *)
(* merge holds here.  RInv adds what is settled at each place: the right   *)
(* and the signature checked at "deciding" are still true when the store   *)
(* is called and when it has committed, since nothing in between writes    *)
(* the body, the user or the privileges.                                   *)
(***************************************************************************)
EXTENDS Request, Privileges_proofs

Over == {"answered", "logged"}

OwnTypes ==
  /\ pc \in Places
  /\ body \in Body \cup {Nil}
  /\ sig \in {"none", "other", "right"}
  /\ user \in Secrets \cup {"none"} /\ secret \in Secrets \cup {"none"}
  /\ kind \in Tables \cup Sessions \cup {Nil} /\ table \in Resources \cup {Nil}
  /\ stored \in BOOLEAN /\ doubt \in BOOLEAN /\ broken \in BOOLEAN
  /\ status \in Nat /\ sent \in Nat \cup {Nil}

(* Nothing is sent, broken or in doubt before the answer. *)
Unsent ==
  pc \notin Over => status = 200 /\ sent = Nil /\ ~ broken /\ ~ doubt

(* The privileges are complete once the request is past the merge. *)
Merged == user # "none" /\ pc # "merging" => left = {}

(* BasicAuthenticate and BasicHMAC have let this request of a table pass. *)
Cleared ==
  /\ table \in Resources
  /\ user # "none" /\ secret = user
  /\ Allows(privs, table, ActionOf[kind])
  /\ kind \in ByMethod => secret \in {"blank", "key"} /\ SignatureHolds

TablesCleared ==
  /\ pc = "deciding" /\ kind \in Tables => table \in Resources /\ secret = user
  /\ pc = "admitted" => kind \in Tables
  /\ pc = "admitted" \/ ((pc = "called" \/ stored) /\ kind \in Tables) => Cleared

(* A login is verified with a key; a refresh with what base64 can decode.    *)
SessionsCleared ==
  /\ (pc = "called" \/ stored) /\ kind \in {"login", "refresh"} => SignatureHolds
  /\ (pc \in {"deciding", "called"} \/ stored) /\ kind = "login" => secret = "key"
  /\ pc = "deciding" /\ kind = "refresh" => secret \in Secrets
  /\ (pc = "called" \/ stored) /\ kind = "refresh" => secret \in {"empty", "blank", "key"}

(* At which places a change is stored. *)
StoredWhere ==
  /\ stored => pc \in {"done"} \cup Over /\ kind \in Changes
  /\ pc = "called" /\ kind = "login" => sig # "none"
  /\ pc = "done" /\ kind \in Changes => (stored <=> (kind = "login" => sig # "none"))

Answered ==
  pc \in Over =>
    /\ sent # Nil
    /\ ~ doubt /\ kind \in Changes /\ (kind = "login" => sig # "none")
       => (sent = 200 <=> stored)
    /\ ~ broken => status = sent
    /\ status = 200 => sent = 200

RInv ==
  /\ OwnTypes /\ Unsent /\ Merged
  /\ TablesCleared /\ SessionsCleared /\ StoredWhere /\ Answered

-----------------------------------------------------------------------------

(* Merging a role is the only step of a request that touches the privileges. *)
LEMMA StepsLeavePrivileges ==
  ASSUME Step PROVE UNCHANGED vars
BY DEF Step, Capture, Anonymous, Unauthorized, Identify, Identified, Route, NoRoute,
       Admit, Forbid, CallWithBody, CallById, BadInput, SendKey, Login, Refresh,
       Logout, WhoAmI, NotDecoded, Denied, Succeed, Fail, FailAfterCommit, Encode,
       EncodeBreaks, Log, Goto, Respond

(* A request implements the merge of the privileges. *)
THEOREM RequestMerges == RequestSpec => Spec
<1>1. RequestInit => Init
  BY DEF RequestInit
<1>2. [RequestNext]_rvars => [Next]_vars
  <2> SUFFICES ASSUME [RequestNext]_rvars PROVE [Next]_vars
    OBVIOUS
  <2>1. CASE Step
    BY <2>1, StepsLeavePrivileges
  <2>2. CASE \E i \in Roles : MergeRole(i)
    BY <2>2 DEF MergeRole, Next
  <2>3. CASE UNCHANGED rvars
    BY <2>3 DEF rvars
  <2> QED BY <2>1, <2>2, <2>3 DEF RequestNext
<1> QED BY <1>1, <1>2, PTL DEF RequestSpec, Spec

(* A step inside the server that goes from one place to the next, nothing    *)
(* sent and nothing stored, keeps what the place it reaches does not ask for. *)
LEMMA GotoStep ==
  ASSUME RInv, NEW p \in Places \ ({"done"} \cup Over), Goto(p),
         pc \in {"captured", "merging", "routing", "deciding", "admitted"},
         p # "deciding", p # "merging", Merged',
         p \in {"admitted", "called"} /\ kind \in Tables => Cleared,
         p = "admitted" => kind \in Tables,
         p = "called" /\ kind \in {"login", "refresh"} => SignatureHolds,
         p = "called" /\ kind = "login" => secret = "key",
         p = "called" /\ kind = "refresh" => secret \in {"empty", "blank", "key"},
         p = "called" /\ kind = "login" => sig # "none"
  PROVE  RInv'
<1> USE DEF RInv, Goto, vars
<1>1. OwnTypes' /\ Unsent'
  BY DEF OwnTypes, Unsent, Over
<1>2. ~ stored /\ ~ stored'
  BY DEF StoredWhere, Over
<1>3. Cleared' <=> Cleared
  BY DEF Cleared, SignatureHolds, Signed, HashMatches, Allows
<1>4. TablesCleared' /\ SessionsCleared'
  BY <1>2, <1>3 DEF TablesCleared, SessionsCleared, SignatureHolds, Signed, HashMatches
<1>5. StoredWhere' /\ Answered'
  BY <1>2 DEF StoredWhere, Answered, Over
<1> QED BY <1>1, <1>4, <1>5

(* A request that ends with an error before anything is stored. *)
LEMMA RespondStep ==
  ASSUME RInv, NEW code \in Nat, code # 200, Respond(code), pc \notin {"done"} \cup Over,
         pc # "merging"
  PROVE  RInv'
<1> USE DEF RInv, Respond, WriteHeader, vars
<1>1. sent' = code /\ status' = code /\ code # Nil
  BY RequestAssumption DEF Unsent
<1>2. ~ stored /\ ~ stored'
  BY DEF StoredWhere
<1>3. OwnTypes' /\ Unsent'
  BY <1>1 DEF OwnTypes, Unsent, Over, Places
<1>4. Merged'
  BY DEF Merged, Over
<1>5. TablesCleared' /\ SessionsCleared' /\ StoredWhere'
  BY <1>2 DEF TablesCleared, SessionsCleared, StoredWhere, Over
<1>6. Answered'
  BY <1>1, <1>2 DEF Answered
<1> QED BY <1>3, <1>4, <1>5, <1>6

(* The steps before the mux. *)
LEMMA EarlySteps ==
  ASSUME RInv, Capture \/ Identify \/ Route \/ \E i \in Roles : MergeRole(i)
  PROVE  RInv'
<1> USE DEF RInv
<1>1. ~ stored /\ pc \notin {"done"} \cup Over /\ stored' = stored
  BY DEF StoredWhere, Capture, Identify, Route, MergeRole, steps, Over
<1>2. pc' \in {"captured", "merging", "deciding"}
  BY DEF Capture, Identify, Route, MergeRole, steps
<1>3. OwnTypes'
  <2>1. CASE Capture
    BY <2>1, RequestAssumption DEF Capture, OwnTypes, Places, Body, Smaller
  <2>2. CASE Identify
    BY <2>2 DEF Identify, OwnTypes, Places
  <2>3. CASE Route
    <3>1. kind' \in Tables \cup Sessions /\ table' \in Resources \cup {Nil}
      BY <2>3 DEF Route, Sessions
    <3>2. secret' \in Secrets \cup {"none"}
      BY <2>3 DEF Route, OwnTypes, Secrets
    <3> QED BY <1>1, <2>3, <3>1, <3>2 DEF Route, OwnTypes, Places
  <2>4. CASE \E i \in Roles : MergeRole(i)
    BY <2>4 DEF MergeRole, OwnTypes, steps
  <2> QED BY <2>1, <2>2, <2>3, <2>4
<1>4. Unsent'
  BY <1>1 DEF Capture, Identify, Route, MergeRole, steps, Unsent
<1>5. Merged'
  BY DEF Capture, Identify, Route, MergeRole, steps, vars, Merged
<1>6. TablesCleared'
  <2>1. CASE Route
    BY <1>1, <2>1 DEF Route, TablesCleared, Tables, Sessions
  <2>2. CASE ~ Route
    BY <1>1, <2>2 DEF Capture, Identify, MergeRole, steps, TablesCleared
  <2> QED BY <2>1, <2>2
<1>7. SessionsCleared'
  <2>1. CASE Route
    <3>1. kind' = "login" => secret' = "key"
      BY <2>1 DEF Route, Tables
    <3>2. kind' = "refresh" => secret' \in Secrets
      BY <2>1 DEF Route, Tables
    <3> QED BY <1>1, <1>2, <3>1, <3>2 DEF SessionsCleared
  <2>2. CASE ~ Route
    <3>1. pc' \in {"captured", "merging"}
      BY <2>2 DEF Capture, Identify, MergeRole, steps
    <3> QED BY <1>1, <3>1 DEF SessionsCleared
  <2> QED BY <2>1, <2>2
<1>8. StoredWhere' /\ Answered'
  BY <1>1, <1>2 DEF StoredWhere, Answered, Over
<1> QED BY <1>3, <1>4, <1>5, <1>6, <1>7, <1>8

(* The steps that reach the next place by Goto. *)
LEMMA OnwardSteps ==
  ASSUME RInv,
         Anonymous \/ Identified \/ Admit \/ CallWithBody \/ CallById \/ Login
           \/ Refresh \/ Logout
  PROVE  RInv'
<1> USE DEF RInv
<1>1. CASE Anonymous \/ Identified
  <2>1. Merged'
    BY <1>1 DEF Anonymous, Identified, Goto, Merged, vars
  <2> QED BY <1>1, <2>1, GotoStep DEF Anonymous, Identified, Places, Over
<1>2. CASE Admit
  <2>1. Merged' /\ Cleared
    BY <1>2 DEF Admit, Admits, Goto, Merged, vars, TablesCleared, Cleared
  <2> QED BY <1>2, <2>1, GotoStep DEF Admit, Places, Over
<1>3. CASE CallWithBody \/ CallById
  <2>1. Merged' /\ Cleared /\ kind \in Tables
    BY <1>3 DEF CallWithBody, CallById, Goto, Merged, vars, TablesCleared
  <2>2. kind \notin {"login", "refresh"}
    BY <2>1 DEF Tables
  <2> QED BY <1>3, <2>1, <2>2, GotoStep DEF CallWithBody, CallById, Places, Over
<1>4. CASE Login \/ Refresh \/ Logout
  <2>1. Merged' /\ kind \notin Tables
    BY <1>4 DEF Login, Refresh, Logout, Goto, Merged, vars, Tables
  <2>2. kind \in {"login", "refresh"} => SignatureHolds /\ sig # "none"
    BY <1>4 DEF Login, Refresh, Logout
  <2>3. kind = "login" => secret = "key"
    BY <1>4 DEF Login, Refresh, Logout, SessionsCleared
  <2>4. kind = "refresh" => secret \in {"empty", "blank", "key"}
    BY <1>4 DEF Login, Refresh, Logout, SessionsCleared, Secrets
  <2> QED BY <1>4, <2>1, <2>2, <2>3, <2>4, GotoStep DEF Login, Refresh, Logout, Places, Over
<1> QED BY <1>1, <1>2, <1>3, <1>4

(* The steps that end the request with an error. *)
LEMMA ErrorSteps ==
  ASSUME RInv,
         Unauthorized \/ NoRoute \/ Forbid \/ BadInput \/ NotDecoded \/ Denied \/ Fail
  PROVE  RInv'
<1>1. CASE Unauthorized
  BY <1>1, RespondStep DEF Unauthorized, Over
<1>2. CASE NoRoute
  BY <1>2, RespondStep DEF NoRoute, Over
<1>3. CASE Forbid
  BY <1>3, RespondStep DEF Forbid, Over
<1>4. CASE BadInput \/ NotDecoded
  BY <1>4, RespondStep DEF BadInput, NotDecoded, Over
<1>5. CASE Denied
  BY <1>5, RespondStep DEF Denied, Over
<1>6. CASE Fail
  BY <1>6, RespondStep DEF Fail, OnFailure, Over
<1> QED BY <1>1, <1>2, <1>3, <1>4, <1>5, <1>6

(* The handler's work is done: by the store, or there was nothing to store. *)
LEMMA DoneSteps ==
  ASSUME RInv, SendKey \/ WhoAmI \/ Succeed
  PROVE  RInv'
<1> USE DEF RInv
<1>1. pc' = "done" /\ UNCHANGED <<vars, body, sig, user, secret, kind, table, doubt, broken, status, sent>>
  BY DEF SendKey, WhoAmI, Succeed, Goto
<1>2. OwnTypes' /\ Unsent' /\ Merged'
  <2>1. stored' \in BOOLEAN
    <3>1. CASE SendKey \/ WhoAmI
      BY <3>1 DEF SendKey, WhoAmI, Goto, OwnTypes
    <3>2. CASE Succeed
      <4>1. stored' = (kind \in Changes)
        BY <3>2 DEF Succeed
      <4>2. CASE kind \in Changes
        <5>1. stored' = TRUE
          BY <4>1, <4>2
        <5> QED BY <5>1
      <4>3. CASE kind \notin Changes
        <5>1. (kind \in Changes) = FALSE
          BY <4>3
        <5>2. stored' = FALSE
          BY <4>1, <5>1
        <5> QED BY <5>2
      <4> QED BY <4>2, <4>3
    <3> QED BY <3>1, <3>2
  <2>2. pc \notin Over /\ pc # "merging"
    BY DEF SendKey, WhoAmI, Succeed, Over
  <2> QED BY <1>1, <2>1, <2>2 DEF OwnTypes, Unsent, Merged, Places, Over, vars
<1>3. Cleared' <=> Cleared
  BY <1>1 DEF Cleared, SignatureHolds, Signed, HashMatches, Allows, vars
<1>4. CASE SendKey \/ WhoAmI
  <2>1. ~ stored /\ ~ stored' /\ kind \in {"login", "whoami"}
        /\ (kind = "login" => sig = "none")
    BY <1>4 DEF SendKey, WhoAmI, Goto, StoredWhere, Over
  <2>2. TablesCleared' /\ SessionsCleared' /\ StoredWhere' /\ Answered'
    BY <1>1, <2>1 DEF TablesCleared, SessionsCleared, StoredWhere, Answered, Over, Changes,
                      ByMethod
  <2> QED BY <1>2, <2>2
<1>5. CASE Succeed
  <2>1. pc = "called" /\ (stored' <=> kind \in Changes)
    BY <1>5 DEF Succeed
  <2>2. TablesCleared' /\ SessionsCleared'
    BY <1>1, <1>3, <2>1 DEF TablesCleared, SessionsCleared, SignatureHolds, Signed, HashMatches
  <2>3. StoredWhere' /\ Answered'
    BY <1>1, <2>1 DEF StoredWhere, Answered, Over
  <2> QED BY <1>2, <2>2, <2>3
<1> QED BY <1>4, <1>5

(* The answer of a handler whose work is done, or whose COMMIT is in doubt. *)
LEMMA AnswerSteps ==
  ASSUME RInv, FailAfterCommit \/ Encode \/ EncodeBreaks \/ Log
  PROVE  RInv'
<1> USE DEF RInv
<1>1. pc' \in Over /\ UNCHANGED <<vars, body, sig, user, secret, kind, table>>
  BY DEF FailAfterCommit, Encode, EncodeBreaks, Log, Goto, Over
<1>2. pc # "merging"
  BY DEF FailAfterCommit, Encode, EncodeBreaks, Log
<1>3. OwnTypes'
  <2>1. OnFailure \in Nat /\ 200 \in Nat /\ 500 \in Nat
    BY DEF OnFailure
  <2>2. CASE FailAfterCommit
    <3>1. stored' = TRUE /\ doubt' = TRUE /\ broken' = broken
      BY <2>2 DEF FailAfterCommit
    <3>2. status' \in Nat /\ sent' \in Nat \cup {Nil}
      BY <2>1, <2>2 DEF FailAfterCommit, WriteHeader, OwnTypes
    <3> QED BY <1>1, <3>1, <3>2 DEF OwnTypes, Places, Over
  <2>3. CASE Encode
    BY <1>1, <2>1, <2>3 DEF OwnTypes, Places, Over, Encode
  <2>4. CASE EncodeBreaks
    <3>1. stored' = stored /\ doubt' = doubt /\ broken' = TRUE
      BY <2>4 DEF EncodeBreaks
    <3>2. status' \in Nat /\ sent' \in Nat \cup {Nil}
      BY <2>1, <2>4 DEF EncodeBreaks, OwnTypes
    <3> QED BY <1>1, <3>1, <3>2 DEF OwnTypes, Places, Over
  <2>5. CASE Log
    BY <1>1, <2>5 DEF OwnTypes, Places, Over, Log, Goto
  <2> QED BY <2>2, <2>3, <2>4, <2>5
<1>4. Unsent' /\ Merged'
  BY <1>1, <1>2 DEF Unsent, Merged, Over, vars
<1>5. Cleared' <=> Cleared
  BY <1>1 DEF Cleared, SignatureHolds, Signed, HashMatches, Allows, vars
<1>6. stored' => (pc = "called" \/ stored) /\ kind \in Changes
  BY DEF FailAfterCommit, Encode, EncodeBreaks, Log, Goto, StoredWhere
<1>7. TablesCleared' /\ SessionsCleared' /\ StoredWhere'
  BY <1>1, <1>5, <1>6 DEF TablesCleared, SessionsCleared, SignatureHolds, Signed, HashMatches,
     StoredWhere, Over
<1>8. Answered'
  <2>1. CASE FailAfterCommit
    <3>1. doubt' /\ broken' = broken /\ sent = Nil
      BY <2>1 DEF FailAfterCommit, Unsent, Over
    <3>2. OnFailure \in Nat /\ OnFailure # 200 /\ OnFailure # Nil
      BY RequestAssumption DEF OnFailure
    <3>3. sent' = OnFailure /\ status' = OnFailure
      BY <2>1, <3>1 DEF FailAfterCommit, WriteHeader
    <3> QED BY <3>1, <3>2, <3>3 DEF Answered
  <2>2. CASE Encode
    <3>1. status' = 200 /\ sent' = 200 /\ 200 # Nil
      BY <2>2, RequestAssumption DEF Encode, Unsent, Over
    <3>2. kind \in Changes /\ (kind = "login" => sig # "none") => stored'
      BY <2>2 DEF Encode, StoredWhere
    <3> QED BY <1>1, <3>1, <3>2 DEF Answered
  <2>3. CASE EncodeBreaks
    <3>1. broken' /\ sent' = 200 /\ 200 # Nil
      BY <2>3, RequestAssumption DEF EncodeBreaks
    <3>2. kind \in Changes /\ (kind = "login" => sig # "none") => stored'
      BY <2>3 DEF EncodeBreaks, StoredWhere
    <3> QED BY <1>1, <3>1, <3>2 DEF Answered
  <2>4. CASE Log
    BY <2>4 DEF Log, Goto, Over, Answered
  <2> QED BY <2>1, <2>2, <2>3, <2>4
<1> QED BY <1>3, <1>4, <1>7, <1>8

(* The inductive invariant holds in every reachable state. *)
THEOREM RequestInvariance == RequestSpec => []RInv
<1>1. RequestInit => RInv
  <2> SUFFICES ASSUME RequestInit PROVE RInv
    OBVIOUS
  <2> USE DEF RequestInit
  <2>1. OwnTypes /\ Unsent /\ Merged
    BY DEF OwnTypes, Unsent, Merged, Places
  <2>2. TablesCleared /\ SessionsCleared /\ StoredWhere /\ Answered
    BY DEF TablesCleared, SessionsCleared, StoredWhere, Answered, Over
  <2> QED BY <2>1, <2>2 DEF RInv
<1>2. RInv /\ [RequestNext]_rvars => RInv'
  <2> SUFFICES ASSUME RInv, [RequestNext]_rvars PROVE RInv'
    OBVIOUS
  <2>1. CASE Step
    BY <2>1, EarlySteps, OnwardSteps, ErrorSteps, DoneSteps, AnswerSteps DEF Step
  <2>2. CASE \E i \in Roles : MergeRole(i)
    BY <2>2, EarlySteps
  <2>3. CASE UNCHANGED rvars
    BY <2>3 DEF rvars, steps, vars, RInv, OwnTypes, Unsent, Merged, TablesCleared,
       SessionsCleared, StoredWhere, Answered, Cleared, SignatureHolds, Signed, HashMatches, Allows
  <2> QED BY <2>1, <2>2, <2>3 DEF RequestNext
<1> QED BY <1>1, <1>2, PTL DEF RequestSpec

(* Type correctness (RequestTypeOK). *)
THEOREM RequestTypes == RequestSpec => []RequestTypeOK
<1>1. IInv /\ RInv => RequestTypeOK
  BY DEF IInv, RInv, OwnTypes, RequestTypeOK
<1> QED BY RequestMerges, PrivilegesInvariance, RequestInvariance, <1>1, PTL

(* A change is stored only for a body that arrived as it was signed, unless  *)
(* the stored secret has no bytes to verify it with (ChangesAreSignedWhole). *)
THEOREM SignedWhole == RequestSpec => []ChangesAreSignedWhole
<1>1. RInv => ChangesAreSignedWhole
  <2> SUFFICES ASSUME RInv, stored, kind # "logout"
               PROVE  \/ Signed
                      \/ secret = "blank" /\ kind # "login"
                      \/ secret = "empty" /\ kind = "refresh"
    BY DEF ChangesAreSignedWhole, Signed, HashMatches
  <2>1. kind \in ByMethod \cup {"login", "refresh"}
    BY DEF RInv, StoredWhere, Changes
  <2>2. CASE kind \in ByMethod
    <3>1. kind \in Tables /\ kind # "login"
      BY <2>2 DEF ByMethod, Tables
    <3>2. secret \in {"blank", "key"} /\ SignatureHolds
      BY <2>2, <3>1 DEF RInv, TablesCleared, Cleared
    <3> QED BY <3>1, <3>2 DEF SignatureHolds
  <2>3. CASE kind = "login"
    BY <2>3 DEF RInv, SessionsCleared, SignatureHolds
  <2>4. CASE kind = "refresh"
    BY <2>4 DEF RInv, SessionsCleared, SignatureHolds
  <2> QED BY <2>1, <2>2, <2>3, <2>4
<1> QED BY RequestInvariance, <1>1, PTL

(* A change of a table is stored only for a user with a secret and with a    *)
(* role that allows it (ChangesAreGranted): what BasicAuthenticate found in  *)
(* the merged privileges, one of the roles has.                              *)
THEOREM Granted == RequestSpec => []ChangesAreGranted
<1>1. IInv /\ RInv => ChangesAreGranted
  <2> SUFFICES ASSUME IInv, RInv, stored, kind \in Tables
               PROVE  user \in {"blank", "key"} /\ left = {}
                      /\ AllowedBySome(granted, table, ActionOf[kind])
    BY DEF ChangesAreGranted
  <2>1. kind \in ByMethod
    BY DEF RInv, StoredWhere, Changes, Tables
  <2>2. Cleared /\ user \in {"blank", "key"}
    BY <2>1 DEF RInv, TablesCleared, Cleared
  <2>3. left = {}
    BY <2>2 DEF RInv, Merged, StoredWhere, Over
  <2>4. ActionOf[kind] \in Actions
    BY <2>1, RequestAssumption DEF ByMethod, ActionOf
  <2>5. AllowedBySome(granted \ left, table, ActionOf[kind])
    BY <2>2, <2>4 DEF IInv, NothingFromNowhere, Cleared
  <2>6. granted \ left = granted
    BY <2>3
  <2> QED BY <2>2, <2>3, <2>5, <2>6
<1> QED BY RequestMerges, PrivilegesInvariance, RequestInvariance, <1>1, PTL

(* 200 says that the change is committed and nothing else does, unless the   *)
(* answer of COMMIT is lost (StatusTellsOutcome).                            *)
THEOREM StatusIsOutcome == RequestSpec => []StatusTellsOutcome
<1>1. RInv => StatusTellsOutcome
  BY DEF RInv, Answered, Over, StatusTellsOutcome
<1> QED BY RequestInvariance, <1>1, PTL

(* What is logged was sent, unless the connection broke (LoggedIsSent).      *)
THEOREM LogIsTrue == RequestSpec => []LoggedIsSent
<1>1. RInv => LoggedIsSent
  BY DEF RInv, Answered, Over, LoggedIsSent
<1> QED BY RequestInvariance, <1>1, PTL

(* Throughout a request the merged privileges are the union of the roles'    *)
(* (GrantsAreUnion).                                                         *)
THEOREM RequestUnion == RequestSpec => []GrantsAreUnion
BY RequestMerges, UnionOfGrants, PTL

(* Throughout a request no malformed document invents a right                *)
(* (NothingFromNowhere).                                                     *)
THEOREM RequestNoInvention == RequestSpec => []NothingFromNowhere
BY RequestMerges, NoInventedGrant, PTL
=============================================================================
