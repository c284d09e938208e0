------------------------------ MODULE Session ------------------------------
(***************************************************************************)
(* Login, refresh, logout and the admission of a writing request           *)
(* (handler/auth.go, Secure and BasicAuthenticate in handler/auth_lib.go)  *)
(* for one e-mail address, used by several clients at once.                *)
(*                                                                         *)
(* The account row is the versioned record UserStore implements: read in   *)
(* one step, written back by Update if its id and version are still those  *)
(* that were read.  A session is what the row holds of it: the refresh     *)
(* token and the shared secret that signs requests.                        *)
(*                                                                         *)
(* Tokens are deterministic: two of one address issued in one second are   *)
(* the same token, so a token is the second it was issued in.  The nonce   *)
(* and timestamp part of a signature is in NonceCache; here a signature is *)
(* good exactly when it was made with the key it is verified with.         *)
(***************************************************************************)
EXTENDS Integers

CONSTANTS Clients,      \* devices that know the address and its password
          Requests,     \* concurrent HTTP requests (goroutines)
          AccessTTL,    \* TOKEN_EXPIRY and the parser's leeway, in seconds of the model
          RefreshTTL,   \* REFRESH_TOKEN_EXPIRY, likewise
          MaxVersion,   \* the version column holds no larger value
          MaxTime,      \* bound: seconds
          MaxLives,     \* bound: process starts, each with its own sPriv
          MaxIds,       \* bound: accounts created for the address
          Masked,       \* what a secret column looks like in JSON
          Nil

ASSUME TimeAssumption ==
  /\ AccessTTL \in Nat /\ RefreshTTL \in Nat
  /\ MaxVersion \in Nat \ {0} /\ MaxTime \in Nat
  /\ MaxLives \in Nat \ {0} /\ MaxIds \in Nat \ {0}

Times == 0..MaxTime
(* The Diffie-Hellman secret of a client's key and a process's sPriv. *)
Keys == [client : Clients, life : 1..MaxLives]
Tokens == Times \cup {Masked, Nil}
Secrets == Keys \cup {Masked, Nil}
Account == [id : 1..MaxIds, version : 1..MaxVersion, token : Tokens, secret : Secrets]
Held == [iat : Times, key : Keys]       \* the tokens of one answer, and the key
Ops == {"login", "refresh", "logout", "write"}
Phases == {"sent", "read", "signed", "stored"}
Request == [op : Ops, phase : Phases, client : Clients, key : Keys,
            presented : Times \cup {Nil}, copy : Account \cup {Nil},
            issued : Times \cup {Nil}]

(* What Abstract keeps of an account and of a request that has stored it. *)
Seen == [token : Tokens, secret : Secrets]
Did == [op : Ops, client : Clients, presented : Times \cup {Nil},
        iat : Times \cup {Nil}, key : Keys]

ASSUME NilAssumption ==
  /\ Nil \notin Times /\ Nil \notin Keys /\ Nil \notin Account
  /\ Nil \notin Held /\ Nil \notin Request /\ Nil \notin Seen /\ Nil \notin Did
  /\ Masked \notin Times /\ Masked \notin Keys /\ Masked # Nil

VARIABLES
  now,       \* the server's clock, in seconds
  life,      \* which process runs: sPriv is drawn at its start
  nextId,    \* the next account id
  account,   \* the row of the address in app_user, or Nil
  pub,       \* client -> the process whose public key it fetched
  held,      \* client -> what its last successful answer brought
  req        \* requests the server works on

vars == <<now, life, nextId, account, pub, held, req>>

TypeOK ==
  /\ now \in Times
  /\ life \in 1..MaxLives
  /\ nextId \in 1..(MaxIds + 1)
  /\ account \in Account \cup {Nil}
  /\ pub \in [Clients -> (1..MaxLives) \cup {Nil}]
  /\ held \in [Clients -> Held \cup {Nil}]
  /\ req \in [Requests -> Request \cup {Nil}]

Init ==
  /\ now = 0 /\ life = 1 /\ nextId = 2
  /\ account = [id |-> 1, version |-> 1, token |-> Nil, secret |-> Nil]
  /\ pub = [c \in Clients |-> Nil]
  /\ held = [c \in Clients |-> Nil]
  /\ req = [r \in Requests |-> Nil]

-----------------------------------------------------------------------------
(* Clients. *)

(* PUT /auth without a signature answers the public key of this process. *)
FetchKey(c) ==
  /\ pub' = [pub EXCEPT ![c] = life]
  /\ UNCHANGED <<now, life, nextId, account, held, req>>

Send(r, op, c, key, presented) ==
  /\ req[r] = Nil
  /\ req' = [req EXCEPT ![r] =
       [op |-> op, phase |-> "sent", client |-> c, key |-> key,
        presented |-> presented, copy |-> Nil, issued |-> Nil]]
  /\ UNCHANGED <<now, life, nextId, account, pub, held>>

SendLogin(r, c) ==
  pub[c] # Nil /\ Send(r, "login", c, [client |-> c, life |-> pub[c]], Nil)

(* Refresh presents the refresh token, logout and writes either token. *)
SendWithToken(r, c) ==
  /\ held[c] # Nil
  /\ \E op \in Ops \ {"login"} : Send(r, op, c, held[c].key, held[c].iat)

-----------------------------------------------------------------------------
(* The server: read and check. *)

Moved(q, phase, copy, issued) ==
  [op |-> q.op, phase |-> phase, client |-> q.client, key |-> q.key,
   presented |-> q.presented, copy |-> copy, issued |-> issued]

Expired(iat, ttl) == now >= iat + ttl

(* Refresh: user.Token is the token presented, and the request is signed *)
(* with user.Secret.                                                     *)
SecretMatches(q, acc) == acc.secret = q.key
RefreshMatches(q, acc) == acc.token = q.presented /\ acc.secret = q.key

(* The access and the refresh token of one second differ in their expiry,  *)
(* and ParseHS256 does not tell them apart: Secure, and getUser for a      *)
(* logout, take the one as well as the other.                              *)
SomeTokenValid(iat) == \E ttl \in {AccessTTL, RefreshTTL} : ~ Expired(iat, ttl)

(* What each handler asks of the account and of the request.  BasicHMAC is *)
(* part of login and refresh; a write passes Secure and BasicAuthenticate, *)
(* which verifies with the secret Secure has read.  Logout only needs a    *)
(* token of the address that has not expired.                              *)
Accepts(r, acc) ==
  LET q == req[r] IN
  \/ q.op = "login" /\ q.key.life = life
  \/ /\ q.op = "refresh"
     /\ ~ Expired(q.presented, RefreshTTL)
     /\ RefreshMatches(q, acc)
  \/ q.op = "logout" /\ SomeTokenValid(q.presented)
  \/ /\ q.op = "write"
     /\ SomeTokenValid(q.presented)
     /\ acc.secret = q.key

(* GetByEmail and everything that is checked on its result. *)
Read(r) ==
  /\ req[r] # Nil /\ req[r].phase = "sent"
  /\ account # Nil
  /\ Accepts(r, account)
  /\ req' = [req EXCEPT ![r] = Moved(@, "read", account, Nil)]
  /\ UNCHANGED <<now, life, nextId, account, pub, held>>

Sign(r) ==
  /\ req[r] # Nil /\ req[r].phase = "read"
  /\ req[r].op \in {"login", "refresh"}
  /\ req' = [req EXCEPT ![r] = Moved(@, "signed", @.copy, now)]
  /\ UNCHANGED <<now, life, nextId, account, pub, held>>

-----------------------------------------------------------------------------
(* The server: write the session back. *)

Ready(r) ==
  /\ req[r] # Nil
  /\ \/ req[r].phase = "signed"
     \/ req[r].phase = "read" /\ req[r].op = "logout"

(* WHERE id = $ AND version = $ *)
SameId(r) == account # Nil /\ account.id = req[r].copy.id
AnyVersion(r) == SameId(r)
Current(r) == SameId(r) /\ account.version = req[r].copy.version

KeptVersion(v) == v
NextVersion(v) == v + 1

(* Does the next version fit the INTEGER column? *)
AlwaysFits(acc) == TRUE
Fits(acc) == acc.version < MaxVersion

SecretOf(r) == IF req[r].op = "logout" THEN Nil ELSE req[r].key

(* Update with the fields Token and Secret. *)
Store(r) ==
  /\ Ready(r)
  /\ Current(r)
  /\ Fits(account)
  /\ account' = [id |-> account.id, version |-> NextVersion(account.version),
                 token |-> req[r].issued, secret |-> SecretOf(r)]
  /\ req' = [req EXCEPT ![r] = Moved(@, "stored", @.copy, @.issued)]
  /\ UNCHANGED <<now, life, nextId, pub, held>>

(* The answer arrives.  A logout drops what the client held. *)
Answer(r) ==
  /\ req[r] # Nil /\ req[r].phase = "stored"
  /\ held' = [held EXCEPT ![req[r].client] =
       IF req[r].op = "logout" THEN Nil
       ELSE [iat |-> req[r].issued, key |-> req[r].key]]
  /\ req' = [req EXCEPT ![r] = Nil]
  /\ UNCHANGED <<now, life, nextId, account, pub>>

(* The request ends without changing the session: a check failed, the row  *)
(* was no longer the one read (NO_ROWS_AFFECTED), the write that was let   *)
(* in has run, the connection broke or the answer got lost.                *)
End(r) ==
  /\ req[r] # Nil
  /\ req' = [req EXCEPT ![r] = Nil]
  /\ UNCHANGED <<now, life, nextId, account, pub, held>>

-----------------------------------------------------------------------------
(* Everything else that happens to the row and to the process. *)

(* PATCH /user/{id}: a new version, and when the body names token or secret *)
(* it stores what the body holds there: null, or the mask a GET has shown.  *)
(* (The JSON never shows another value, so clients have none to send back.) *)
Edit ==
  /\ account # Nil
  /\ Fits(account)
  /\ \E tok \in {account.token, Masked, Nil}, sec \in {account.secret, Masked, Nil} :
       account' = [id |-> account.id, version |-> NextVersion(account.version),
                   token |-> tok, secret |-> sec]
  /\ UNCHANGED <<now, life, nextId, pub, held, req>>

(* DELETE /user/{id}, and PUT /user: a new id, and version 1 again. *)
Remove ==
  /\ account # Nil
  /\ account' = Nil
  /\ UNCHANGED <<now, life, nextId, pub, held, req>>

Recreate ==
  /\ account = Nil
  /\ nextId <= MaxIds
  /\ \E tok \in {Masked, Nil}, sec \in {Masked, Nil} :
       account' = [id |-> nextId, version |-> 1, token |-> tok, secret |-> sec]
  /\ nextId' = nextId + 1
  /\ UNCHANGED <<now, life, pub, held, req>>

(* The process dies with its requests; the next one draws a new sPriv. *)
Restart ==
  /\ life < MaxLives
  /\ life' = life + 1
  /\ req' = [r \in Requests |-> Nil]
  /\ UNCHANGED <<now, nextId, account, pub, held>>

Tick ==
  /\ now < MaxTime
  /\ now' = now + 1
  /\ UNCHANGED <<life, nextId, account, pub, held, req>>

-----------------------------------------------------------------------------

Next ==
  \/ \E c \in Clients : FetchKey(c)
  \/ \E r \in Requests, c \in Clients : SendLogin(r, c) \/ SendWithToken(r, c)
  \/ \E r \in Requests : Read(r) \/ Sign(r) \/ Store(r) \/ Answer(r) \/ End(r)
  \/ Edit \/ Remove \/ Recreate \/ Restart \/ Tick

Spec == Init /\ [][Next]_vars

-----------------------------------------------------------------------------
(* Properties. *)

(* A request checks a password, a refresh token or a signature against a row *)
(* it read, and acts on the result later.  As long as id and version are     *)
(* those it read, the row still is the one it checked, also when the account *)
(* was deleted and created anew with version 1 in between.                   *)
CurrentCopyIsTheSession ==
  \A r \in Requests :
    req[r] # Nil /\ req[r].phase \in {"read", "signed"} /\ Current(r)
    => account = req[r].copy

(* Two refreshes of one session, or a refresh and a login, may overlap.  The *)
(* one that stores its tokens replaces exactly the refresh token that was    *)
(* presented to it and keeps the secret it was signed with: a refresh token  *)
(* that has been replaced cannot be traded in by a request already running.  *)
RefreshKeepsTheSession ==
  [][\A r \in Requests :
       Store(r) /\ req[r].op = "refresh" =>
         /\ account.token = req[r].presented
         /\ account'.secret = account.secret]_vars

(* After a logout, or an edit that wiped the secret, no refresh or login     *)
(* that was checked before it brings the session back: the account has a     *)
(* signing key again only through a login that was checked afterwards.       *)
LogoutIsFinal ==
  [][account # Nil /\ account' # Nil /\ account.secret \notin Keys
       /\ account'.secret \in Keys
     => \E r \in Requests : /\ Store(r) /\ req[r].op = "login"
                            /\ req[r].copy.secret \notin Keys]_vars

(* The tokens of one account are signed outside the transaction that stores  *)
(* them, by requests that overlap.  Still no client ever holds tokens newer  *)
(* than the stored one.                                                      *)
NoClientAhead ==
  \A c \in Clients :
    held[c] # Nil /\ account # Nil /\ account.token \in Times
    => held[c].iat <= account.token

(* A token that a later one has replaced is spent for good: through logouts, *)
(* edits, restarts, the account's deletion and its re-creation, no row of    *)
(* the address ever has it again, whatever requests were under way with it.  *)
(* (Only within its own second can a token be issued twice.)                 *)
SpentTokensStaySpent ==
  \A t \in Times :
    [](account # Nil /\ account.token \in Times /\ account.token > t
       => [](account # Nil => account.token # t))

(* Reading, checking, signing and storing are steps of their own, and still  *)
(* every request that succeeds has acted on the session in the one step that *)
(* stored it: Session implements OneSession.  A second is closed once it is  *)
(* over and every request that may still store its tokens has later ones.    *)
Closed ==
  {t \in Times :
     /\ t < now
     /\ \A r \in Requests :
          req[r] # Nil /\ req[r].phase = "signed" /\ Current(r) => t < req[r].issued}

Told(r) ==
  IF req[r] # Nil /\ req[r].phase = "stored"
  THEN [op |-> req[r].op, client |-> req[r].client, presented |-> req[r].presented,
        iat |-> req[r].issued, key |-> req[r].key]
  ELSE Nil

TheSession ==
  IF account = Nil THEN Nil ELSE [token |-> account.token, secret |-> account.secret]
Replies == [r \in Requests |-> Told(r)]

Abstract == INSTANCE OneSession WITH
              session <- TheSession, closed <- Closed, reply <- Replies

ImplementsOneSession == Abstract!Spec
=============================================================================
