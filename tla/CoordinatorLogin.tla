-------------------------- MODULE CoordinatorLogin --------------------------
(***************************************************************************)
(* The calls a device makes to the coordinator of a network: each RPC on a *)
(* connection of its own, and register() and login() as the RPCs they make *)
(* in turn (network/client/login.py), with the SRP exchange of             *)
(* network/coordinator/pake.py as its messages: login_init leaves a        *)
(* LoginInProgress made from the stored verifier, and login_finish accepts *)
(* a proof made with the same password.  The service that receives the     *)
(* RPCs is not in the repository: it is modelled by what the client's      *)
(* calls and their comments rely on.  One account is followed: the handle  *)
(* and the device of this user.                                            *)
(***************************************************************************)
EXTENDS Naturals, Sequences

CONSTANTS
  Passwords,   \* what the user may have chosen, or type
  NoPassword,
  MaxOpen      \* bound: RPC connections open in one process

ASSUME PasswordsAssumption == NoPassword \notin Passwords
ASSUME OpenAssumption == MaxOpen \in Nat \ {0}

Tickets == {"user", "device"}   \* roles of the invites the user may hold

VARIABLES
  account,  \* external: the password the account's verifier was made from
  invites,  \* external: the invites that have not been used
  paired,   \* external: is our device key bound to the account?
  pending,  \* the coordinator's LoginInProgress: the password behind its verifier
  call,     \* the RPCs still to be made, and how far the first of them is
  conns,    \* connections to the coordinator that are open
  calm      \* external: from now on nothing is lost, fails or is cut short

loginVars == <<account, invites, paired, pending, call, conns, calm>>

NoCall == [todo |-> <<>>, pw |-> NoPassword, invite |-> "none", at |-> "none", reply |-> "none"]

InitLogin ==
  /\ account \in Passwords \cup {NoPassword} /\ invites = Tickets
  /\ paired = FALSE /\ pending = NoPassword
  /\ call = NoCall /\ conns = 0 /\ calm = FALSE

-----------------------------------------------------------------------------
(* register, login, refresh_cert, list_agents *)

LoginCalls    == <<"login_init", "login_finish">>
RegisterCalls == <<"register", "login_init", "login_finish">>

Calling(todo, pw, invite) ==
  [todo |-> todo, pw |-> pw, invite |-> invite, at |-> "dial", reply |-> "none"]

Method == Head(call.todo)

\* How a call ends: LoginError, or any other exception (a dial, a time-out).
Ends(how) == call' = [NoCall EXCEPT !.at = how]

-----------------------------------------------------------------------------
(* _rpc *)

Dialled ==
  /\ call.at = "dial" /\ conns < MaxOpen
  /\ call' = [call EXCEPT !.at = "open"] /\ conns' = conns + 1
  /\ UNCHANGED <<account, invites, paired, pending, calm>>

DialFails ==
  /\ ~calm /\ call.at = "dial" /\ Ends("failed")
  /\ UNCHANGED <<account, invites, paired, pending, conns, calm>>

Opened ==
  /\ call.at = "open" /\ call' = [call EXCEPT !.at = "read"]
  /\ UNCHANGED <<account, invites, paired, pending, conns, calm>>

\* open_bi is before the try block: its connection is left open.
OpenFails ==
  /\ ~calm /\ call.at = "open" /\ Ends("failed")
  /\ UNCHANGED <<account, invites, paired, pending, conns, calm>>

\* The request cannot be written, or no answer comes in 30 seconds, also when
\* the coordinator has acted on it; the connection is closed.
Lost ==
  /\ ~calm /\ call.at = "read" /\ Ends("failed") /\ conns' = conns - 1
  /\ UNCHANGED <<account, invites, paired, pending, calm>>

\* The stream ends in the middle of a frame: LoginError.
CutShort ==
  /\ ~calm /\ call.at = "read" /\ Ends("refused") /\ conns' = conns - 1
  /\ UNCHANGED <<account, invites, paired, pending, calm>>

\* The answer: go on with the next RPC of the call, or raise LoginError.
Answered ==
  /\ call.at = "read" /\ call.reply # "none" /\ conns' = conns - 1
  /\ \/ call.reply = "error" /\ Ends("refused")
     \/ /\ call.reply = "result" /\ Len(call.todo) > 1
        /\ call' = [call EXCEPT !.todo = Tail(@), !.at = "dial", !.reply = "none"]
     \/ call.reply = "result" /\ Len(call.todo) = 1 /\ Ends("done")
  /\ UNCHANGED <<account, invites, paired, pending, calm>>

-----------------------------------------------------------------------------
(* The coordinator acts on a request *)

Asked(method) == call.at = "read" /\ call.reply = "none" /\ Method = method

Reply(answer) == call' = [call EXCEPT !.reply = answer]

\* register: the verifier is stored; the handle must be free.
Registered ==
  /\ Asked("register")
  /\ IF account = NoPassword /\ call.invite \in invites
     THEN account' = call.pw /\ Reply("result")
     ELSE UNCHANGED account /\ Reply("error")
  /\ UNCHANGED <<invites, paired, pending, conns, calm>>

\* login_init: a session over the stored verifier.
LoginInit ==
  /\ Asked("login_init")
  /\ pending' = account /\ Reply(IF account = NoPassword THEN "error" ELSE "result")
  /\ UNCHANGED <<account, invites, paired, conns, calm>>

\* Does the client's M1 prove the password behind the session's verifier?
ProofVerifies == pending = call.pw

\* login_finish: the proof, and the device known or invited; a certificate.
LoginFinish ==
  /\ Asked("login_finish")
  /\ IF ProofVerifies /\ (paired \/ call.invite \in invites)
     THEN paired' = TRUE /\ invites' = invites \ {call.invite} /\ Reply("result")
     ELSE UNCHANGED <<paired, invites>> /\ Reply("error")
  /\ pending' = NoPassword
  /\ UNCHANGED <<account, conns, calm>>

\* The agents registered in the network, which may be none.
AgentsListed ==
  /\ Asked("list_agents") /\ Reply("result")
  /\ UNCHANGED <<account, invites, paired, pending, conns, calm>>

\* "Stored in per-connection memory only": it may be gone before the proof.
LoginForgotten ==
  /\ ~calm /\ pending # NoPassword /\ pending' = NoPassword
  /\ UNCHANGED <<account, invites, paired, call, conns, calm>>

CalmsDown == ~calm /\ calm' = TRUE /\ UNCHANGED <<account, invites, paired, pending, call, conns>>

CoordinatorActs == Registered \/ LoginInit \/ LoginFinish \/ AgentsListed

Rpc == \/ Dialled \/ DialFails \/ Opened \/ OpenFails \/ Lost \/ CutShort \/ Answered
       \/ CoordinatorActs \/ LoginForgotten
=============================================================================
