------------------------------ MODULE Request ------------------------------
(***************************************************************************)
(* One API request on its way through the server: HTTPLogger reads the     *)
(* body and hands a copy on, Secure finds the user and merges the          *)
(* privileges, the mux finds the handler, BasicAuthenticate or BasicHMAC   *)
(* decides, the handler decodes the body and calls the store, the answer   *)
(* is written and the log line with it.                                    *)
(*                                                                         *)
(* A step nobody else sees is one action up to the next call that can      *)
(* fail.  What the other parts promise is a choice here: a store call ends *)
(* in one of the ways UserStore and RowStore have, getUser and the tokens  *)
(* are Session's, timestamp and nonce NonceCache's.  The handlers of the   *)
(* three tables differ in nothing the steps tell apart.                    *)
(***************************************************************************)
EXTENDS Privileges, Integers

CONSTANTS MaxBody,   \* MaxBodySize
          MaxLen,    \* bound: the longest body
          Nil

Tables == {"create", "get", "find", "update", "delete"}
Sessions == {"login", "refresh", "logout", "whoami"}
ActionOf == [create |-> "create", get |-> "read", find |-> "read",
             update |-> "update", delete |-> "delete"]
ByMethod == {"create", "update", "delete"}     \* PUT, PATCH, DELETE
Changes == ByMethod \cup {"login", "refresh", "logout"}

(* What may stand in a user's column secret, which a PUT or PATCH of the     *)
(* user can set: nothing, or a text that is no base64; ""; line breaks,      *)
(* which base64 skips, so that nothing is decoded; or the bytes of a key.    *)
Secrets == {"unusable", "empty", "blank", "key"}

ASSUME RequestAssumption ==
  /\ MaxBody \in Nat /\ MaxLen \in Nat
  /\ {"create", "read", "update", "delete"} \subseteq Actions
  /\ Nil \notin Nat

(* Of the bytes sent: how many there are, where the first JSON value ends    *)
(* (0: there is none of the handler's type), how many were captured.         *)
Body == [len : 0..MaxLen, ends : 0..MaxLen, got : 0..MaxBody]

VARIABLES
  pc,
  body,
  sig,      \* X-Req-Signature: none, another key's, or right for the bytes sent
  user,     \* the user in the context: none, or one with this secret
  secret,   \* the secret the handler verifies the signature with
  kind,     \* the handler
  table,    \* its resource
  stored,   \* history: the store has committed a change
  doubt,    \* history: COMMIT was carried out and reported as failed
  broken,   \* history: the connection broke while the answer was written
  status,   \* respCapture.status
  sent      \* the status line the client gets

steps == <<pc, body, sig, user, secret, kind, table, stored, doubt, broken, status, sent>>
rvars == <<vars, steps>>

Places == {"received", "captured", "merging", "routing", "deciding", "admitted",
           "called", "done", "answered", "logged"}

RequestTypeOK ==
  /\ TypeOK
  /\ pc \in Places
  /\ body \in Body \cup {Nil}
  /\ sig \in {"none", "other", "right"}
  /\ user \in Secrets \cup {"none"} /\ secret \in Secrets \cup {"none"}
  /\ kind \in Tables \cup Sessions \cup {Nil} /\ table \in Resources \cup {Nil}
  /\ stored \in BOOLEAN /\ doubt \in BOOLEAN /\ broken \in BOOLEAN
  /\ status \in Nat /\ sent \in Nat \cup {Nil}

RequestInit ==
  /\ Init
  /\ pc = "received"
  /\ body = Nil /\ kind = Nil /\ table = Nil
  /\ sig = "none" /\ user = "none" /\ secret = "none"
  /\ stored = FALSE /\ doubt = FALSE /\ broken = FALSE
  /\ status = 200 /\ sent = Nil

-----------------------------------------------------------------------------
(* Writing the answer. *)

StatusForgotten(code) ==
  /\ status' = status
  /\ sent' = IF sent = Nil THEN code ELSE sent
(* The last status is logged; net/http sends the first. *)
WriteHeader(code) ==
  /\ status' = code
  /\ sent' = IF sent = Nil THEN code ELSE sent

(* The request ends here with this status. *)
Respond(code) ==
  /\ WriteHeader(code)
  /\ pc' = "answered"
  /\ UNCHANGED <<vars, body, sig, user, secret, kind, table, stored, doubt, broken>>

Goto(place) ==
  /\ pc' = place
  /\ UNCHANGED <<vars, body, sig, user, secret, kind, table, stored, doubt, broken, status, sent>>

-----------------------------------------------------------------------------
(* HTTPLogger and Secure. *)

WholeBody(m, n) == m
Smaller(m, n) == IF m < n THEN m ELSE n

(* At most MaxBody bytes are read; io.ReadAll's error is dropped, so it may  *)
(* be fewer.  The captured bytes are the body from here on.                  *)
Capture ==
  /\ pc = "received"
  /\ \E len \in 0..MaxLen : \E ends \in 0..len, got \in 0..Smaller(len, MaxBody) :
       body' = [len |-> len, ends |-> ends, got |-> got]
  /\ sig' \in {"none", "other", "right"}
  /\ pc' = "captured"
  /\ UNCHANGED <<vars, user, secret, kind, table, stored, doubt, broken, status, sent>>

(* Neither a bearer token nor a session cookie. *)
Anonymous ==
  /\ pc = "captured"
  /\ Goto("routing")

(* The token is bad, or GetByEmail finds no such user. *)
Unauthorized ==
  /\ pc = "captured"
  /\ Respond(401)

Identify ==
  /\ pc = "captured"
  /\ user' \in Secrets
  /\ pc' = "merging"
  /\ UNCHANGED <<vars, body, sig, secret, kind, table, stored, doubt, broken, status, sent>>

MergeRole(i) ==
  /\ pc = "merging"
  /\ Merge(i)
  /\ UNCHANGED steps

Identified ==
  /\ pc = "merging" /\ left = {}
  /\ Goto("routing")

-----------------------------------------------------------------------------
(* The mux, BasicAuthenticate and BasicHMAC. *)

(* A table's handler verifies with the secret of the user in the context, a  *)
(* refresh with that of the user its token belongs to, whoever is in the     *)
(* context, and a login with the key just agreed on with the client's.       *)
Route ==
  /\ pc = "routing"
  /\ \/ kind' \in Tables /\ table' \in Resources /\ secret' = user
     \/ kind' = "login" /\ table' = Nil /\ secret' = "key"
     \/ kind' = "refresh" /\ table' = Nil /\ secret' \in Secrets
     \/ kind' \in {"logout", "whoami"} /\ table' = Nil /\ secret' = "none"
  /\ pc' = "deciding"
  /\ UNCHANGED <<vars, body, sig, user, stored, doubt, broken, status, sent>>

(* No pattern of the mux matches, or only one of another method. *)
NoRoute ==
  /\ pc = "routing"
  /\ \E code \in {404, 405} : Respond(code)

(* X-Body-Hash, made over the bytes sent, against the bytes captured; the    *)
(* context has a copy of the buffer, with a read position of its own, so     *)
(* this is the same after the body has been decoded.                         *)
HashTrusted == TRUE
HashMatches == body.got = body.len

Signed == sig = "right" /\ HashMatches

(* BasicHMAC with the bytes of the secret: without any it asks only that     *)
(* there is a header.  It may also refuse for its timestamp and nonce.       *)
SignatureHolds ==
  /\ sig # "none"
  /\ secret = "key" => Signed

AnyRight ==
  /\ user # "none"
  /\ \E a \in Actions : Allows(privs, table, a)
  /\ kind \in ByMethod => secret \in {"blank", "key"} /\ SignatureHolds
(* BasicAuthenticate refuses a secret of NULL or "" itself, before it is     *)
(* decoded, for the methods that change something.                           *)
Admits ==
  /\ user # "none"
  /\ Allows(privs, table, ActionOf[kind])
  /\ kind \in ByMethod => secret \in {"blank", "key"} /\ SignatureHolds

Admit ==
  /\ pc = "deciding" /\ kind \in Tables
  /\ Admits
  /\ Goto("admitted")

Forbid ==
  /\ pc = "deciding" /\ kind \in Tables
  /\ ~ Admits \/ kind \in ByMethod
  /\ Respond(403)

-----------------------------------------------------------------------------
(* The handlers, up to the store call. *)

(* json.Decoder reads the first value and ignores what follows. *)
Decoded == body.ends # 0 /\ body.ends <= body.got

WithBody == kind \in {"create", "find", "update"}

(* A create, an update or a find with the decoded body; the id of the path,  *)
(* if there is one, is a number.                                             *)
CallWithBody ==
  /\ pc = "admitted" /\ WithBody
  /\ Decoded
  /\ Goto("called")

CallById ==
  /\ pc = "admitted" /\ kind \in {"get", "delete"}
  /\ Goto("called")

BadInput ==
  /\ pc = "admitted"
  /\ (WithBody /\ ~ Decoded) \/ kind \in {"get", "update", "delete"}
  /\ Respond(500)

(* The server's public key, for a client that has none yet. *)
SendKey ==
  /\ pc = "deciding" /\ kind = "login" /\ sig = "none"
  /\ Goto("done")

(* Login decodes first, since the body holds the client's key.  E-mail,      *)
(* public key and password are right.                                        *)
Login ==
  /\ pc = "deciding" /\ kind = "login" /\ sig # "none"
  /\ Decoded /\ SignatureHolds
  /\ Goto("called")

(* BasicHMAC is asked twice, the first time for the headers alone; a secret  *)
(* of "" is decoded and passed on.                                           *)
Refresh ==
  /\ pc = "deciding" /\ kind = "refresh" /\ sig # "none"
  /\ Decoded
  /\ secret # "unusable" /\ SignatureHolds
  /\ Goto("called")

Logout ==
  /\ pc = "deciding" /\ kind = "logout"
  /\ Decoded
  /\ Goto("called")

WhoAmI ==
  /\ pc = "deciding" /\ kind = "whoami"
  /\ Decoded
  /\ Goto("done")

NotDecoded ==
  /\ pc = "deciding" /\ kind \in Sessions
  /\ kind \in {"login", "refresh"} => sig # "none"
  /\ ~ Decoded
  /\ Respond(500)

(* A header, the signature, an input or the credentials are not good. *)
Denied ==
  /\ pc = "deciding" /\ kind \in Sessions
  /\ IF kind = "refresh" THEN sig = "none" \/ Decoded
     ELSE Decoded /\ (kind = "login" => sig # "none")
  /\ Respond(IF kind = "whoami" THEN 401 ELSE 400)

-----------------------------------------------------------------------------
(* The store call and the answer. *)

Succeed ==
  /\ pc = "called"
  /\ stored' = (kind \in Changes)
  /\ pc' = "done"
  /\ UNCHANGED <<vars, body, sig, user, secret, kind, table, doubt, broken, status, sent>>

AsSuccess == 200
OnFailure == IF kind \in {"login", "logout"} THEN 400 ELSE 500

Fail ==
  /\ pc = "called"
  /\ Respond(OnFailure)

(* COMMIT was carried out, but its answer did not come back. *)
FailAfterCommit ==
  /\ pc = "called" /\ kind \in Changes
  /\ stored' = TRUE /\ doubt' = TRUE
  /\ WriteHeader(OnFailure)
  /\ pc' = "answered"
  /\ UNCHANGED <<vars, body, sig, user, secret, kind, table, broken>>

(* The first byte sends status 200. *)
Encode ==
  /\ pc = "done"
  /\ sent' = 200
  /\ pc' = "answered"
  /\ UNCHANGED <<vars, body, sig, user, secret, kind, table, stored, doubt, broken, status>>

(* The client is gone.  The handlers of the tables return the error of       *)
(* Encode and writeInternalError sets another status, too late to be sent;   *)
(* those of /auth ignore it.                                                 *)
EncodeBreaks ==
  /\ pc = "done"
  /\ broken' = TRUE
  /\ sent' = 200
  /\ status' = IF kind \in Tables THEN 500 ELSE status
  /\ pc' = "answered"
  /\ UNCHANGED <<vars, body, sig, user, secret, kind, table, stored, doubt>>

Log ==
  /\ pc = "answered"
  /\ Goto("logged")

-----------------------------------------------------------------------------

Step ==
  \/ Capture \/ Anonymous \/ Unauthorized \/ Identify \/ Identified \/ Route \/ NoRoute
  \/ Admit \/ Forbid \/ CallWithBody \/ CallById \/ BadInput
  \/ SendKey \/ Login \/ Refresh \/ Logout \/ WhoAmI \/ NotDecoded \/ Denied
  \/ Succeed \/ Fail \/ FailAfterCommit \/ Encode \/ EncodeBreaks \/ Log

RequestNext == Step \/ \E i \in Roles : MergeRole(i)

RequestSpec == RequestInit /\ [][RequestNext]_rvars

-----------------------------------------------------------------------------
(* Properties. *)

(* A user, role or parameter is changed, and a session begun or renewed,     *)
(* only by a body that is byte for byte what the client signed, although     *)
(* the handler gets a copy that may have been cut off, at MaxBodySize or by  *)
(* a read error nobody looks at, and although a JSON decoder is content with *)
(* a beginning of it.  This asks for a key: with a stored secret of line     *)
(* breaks no signature is compared at all, nor for a refresh with one of "". *)
(* A PUT or PATCH that names the column can leave such a secret; login,      *)
(* refresh and logout leave one only where there was one.                    *)
ChangesAreSignedWhole ==
  stored /\ kind # "logout" =>
    \/ sig = "right" /\ body.got = body.len
    \/ secret = "blank" /\ kind # "login"
    \/ secret = "empty" /\ kind = "refresh"

(* No change of a table without a role of the user that allows this action   *)
(* on this table: the roles are merged before the decision, and no order of  *)
(* merging, no malformed document and no error on the way invents the right. *)
ChangesAreGranted ==
  stored /\ kind \in Tables =>
    user \in {"blank", "key"} /\ left = {} /\ AllowedBySome(granted, table, ActionOf[kind])

(* 200 for a change means that it was committed, and anything else that it   *)
(* was not, but for a COMMIT whose own answer was lost.  This holds as well  *)
(* when the connection breaks and the handler, its work done, reports an     *)
(* internal error.                                                           *)
StatusTellsOutcome ==
  pc \in {"answered", "logged"} /\ ~ doubt /\ kind \in Changes
    /\ (kind = "login" => sig # "none")
  => (sent = 200 <=> stored)

(* The log line has the status the client got, unless the connection broke;  *)
(* then it may say 500 for what was done, but never 200 for what was not.    *)
LoggedIsSent ==
  pc = "logged" =>
    /\ ~ broken => status = sent
    /\ status = 200 => sent = 200
=============================================================================
