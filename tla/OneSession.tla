----------------------------- MODULE OneSession -----------------------------
(***************************************************************************)
(* What login, refresh and logout promise for one address, without rows    *)
(* that are read, checked, signed for and written back: every request that *)
(* succeeds takes effect in one step on the session as it is then, and the *)
(* client is told what that step did.  Session is shown to implement it.   *)
(***************************************************************************)
EXTENDS Integers

CONSTANTS Clients, Requests,
          MaxTime,
          Keys,         \* shared secrets
          Masked,       \* what a secret column looks like in JSON
          Nil

Times == 0..MaxTime

VARIABLES
  session,   \* the refresh token and the secret of the account, or Nil: no account
  closed,    \* the seconds of which no token will be stored any more
  reply,     \* request -> what it did, until its answer has arrived or is lost
  held       \* client -> what its last successful answer brought

vars == <<session, closed, reply, held>>

Empty == [token |-> Nil, secret |-> Nil]

Init ==
  /\ session = Empty
  /\ closed = {}
  /\ reply = [r \in Requests |-> Nil]
  /\ held = [c \in Clients |-> Nil]

(* Seconds only close, and a token that is stored closes all before it. *)
Later(t) ==
  /\ t \in Times \ closed
  /\ closed \subseteq closed'
  /\ \A u \in Times : u < t => u \in closed'

Tell(r, op, c, presented, t, k) ==
  reply' = [reply EXCEPT ![r] =
    [op |-> op, client |-> c, presented |-> presented, iat |-> t, key |-> k]]

(* A login opens a session with a key of its own. *)
LogIn(r) ==
  /\ session # Nil /\ reply[r] = Nil
  /\ \E t \in Times, c \in Clients, k \in Keys :
       /\ session' = [token |-> t, secret |-> k]
       /\ Later(t)
       /\ Tell(r, "login", c, Nil, t, k)
  /\ UNCHANGED held

(* A refresh trades in the token the session has, and keeps its key. *)
Refresh(r) ==
  /\ session # Nil /\ reply[r] = Nil
  /\ session.token \in Times /\ session.secret \in Keys
  /\ \E t \in Times, c \in Clients :
       /\ session' = [token |-> t, secret |-> session.secret]
       /\ Later(t)
       /\ Tell(r, "refresh", c, session.token, t, session.secret)
  /\ UNCHANGED held

(* A logout ends whatever session there is. *)
LogOut(r) ==
  /\ session # Nil /\ reply[r] = Nil
  /\ session' = Empty
  /\ closed \subseteq closed'
  /\ \E c \in Clients, p \in Times, k \in Keys : Tell(r, "logout", c, p, Nil, k)
  /\ UNCHANGED held

(* The client learns what was done, or never does. *)
Deliver(r) ==
  /\ reply[r] # Nil
  /\ held' = [held EXCEPT ![reply[r].client] =
       IF reply[r].op = "logout" THEN Nil
       ELSE [iat |-> reply[r].iat, key |-> reply[r].key]]
  /\ reply' = [reply EXCEPT ![r] = Nil]
  /\ UNCHANGED <<session, closed>>

Lose ==
  /\ UNCHANGED <<session, held>>
  /\ closed \subseteq closed'
  /\ \E lost \in SUBSET Requests :
       reply' = [r \in Requests |-> IF r \in lost THEN Nil ELSE reply[r]]

(* The account is edited, deleted and created anew: never into a session. *)
Row ==
  /\ \/ /\ session # Nil
        /\ \E tok \in {session.token, Masked, Nil}, sec \in {session.secret, Masked, Nil} :
             session' = [token |-> tok, secret |-> sec]
     \/ session # Nil /\ session' = Nil
     \/ /\ session = Nil
        /\ \E tok \in {Masked, Nil}, sec \in {Masked, Nil} :
             session' = [token |-> tok, secret |-> sec]
  /\ UNCHANGED <<reply, held>>
  /\ closed \subseteq closed'

Close == UNCHANGED <<session, held, reply>> /\ closed \subseteq closed'

Next ==
  \/ Close \/ Row \/ Lose
  \/ \E r \in Requests : LogIn(r) \/ Refresh(r) \/ LogOut(r) \/ Deliver(r)

Spec == Init /\ [][Next]_vars
=============================================================================
