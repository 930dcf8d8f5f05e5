--------------------------- MODULE ClientLifecycle ---------------------------
(***************************************************************************)
(* The commands that open a gateway, from the start of the process to its  *)
(* end: `connect` with a ticket or a handle (_run_connect: log in, store   *)
(* the membership, from_network, connect, the REPL), the one-shot commands *)
(* (history, search, server-info, terminal) and the member commands        *)
(* (users, members, invitations, invite), which go through                 *)
(* _open_gateway_for_rest.  What a client takes (node, dialer, proxy,      *)
(* session, socket, listener, capability link) is followed through every   *)
(* failure, a Ctrl-C and a kill, with what is on disk and at the           *)
(* coordinator.                                                            *)
(***************************************************************************)
EXTENDS CoordinatorLogin, FiniteSets

VARIABLES
  disk,  \* the membership's row in the user store, and its certificate file
  proc,  \* the command under way: which, how far, the password typed, how it ended
  held   \* what the process has taken and not released

lifeVars == <<disk, proc, held>>
allVars == <<loginVars, lifeVars>>

Connects == {"user", "device", "handle"}  \* connect <ticket of this role> | handle@network
OneShots == {"rest", "member"}            \* through _open_gateway_for_rest

\* The order in which connect() takes them on top of from_network's.
Taken == <<"node", "dialer", "proxy", "session", "ws", "listener", "caps">>

LifeInit ==
  /\ InitLogin
  /\ disk = [row |-> FALSE, cert |-> "none"]
  /\ proc = [cmd |-> "none", at |-> "none", pw |-> NoPassword, end |-> "none"]
  /\ held = {}

At(place) == proc.at = place
Go(place) == proc' = [proc EXCEPT !.at = place]

\* The process ends; what it still holds is seen here, and gone with it.
Exit(how) == proc' = [proc EXCEPT !.at = "none", !.end = how]

\* An exception that passes an owner: release, then exit.
Raise == proc' = [proc EXCEPT !.at = "release", !.end = "raised"]

Begin(todo, pw, invite) == call' = Calling(todo, pw, invite)

-----------------------------------------------------------------------------
(* _run_connect up to from_network *)

\* Mutant: a first-time connect is assumed of every one.
AlwaysRegisters(cmd) == IF cmd = "device" THEN LoginCalls ELSE RegisterCalls

\* Only a user ticket for a network that is not in the store registers.
LoginFor(cmd) == IF ~disk.row /\ cmd = "user" THEN RegisterCalls ELSE LoginCalls

Connect(cmd, pw) ==
  /\ At("none") /\ held' = {"node"} /\ conns' = 0
  /\ IF ~disk.row /\ cmd = "handle"
     THEN \* "This network isn't in your user store": returns with the node on
          /\ proc' = [cmd |-> cmd, at |-> "none", pw |-> pw, end |-> "unknown"]
          /\ call' = NoCall
     ELSE /\ proc' = [cmd |-> cmd, at |-> "login", pw |-> pw, end |-> "none"]
          /\ Begin(LoginFor(cmd), pw, IF disk.row THEN "none" ELSE cmd)
  /\ UNCHANGED <<account, invites, paired, pending, disk, calm>>

\* LoginError is printed and the command returns, again with the node on.
LoginRefused ==
  /\ At("login") /\ call.at = "refused" /\ Exit("refused")
  /\ UNCHANGED <<loginVars, disk, held>>

LoginFailed ==
  /\ At("login") /\ call.at = "failed" /\ Raise
  /\ UNCHANGED <<loginVars, disk, held>>

\* Mutant: the row is stored before the coordinator has answered the login.
StoresEarly == At("login") /\ call.at # "none"

LoggedIn == At("login") /\ call.at = "done"

\* write_cert, then save.
CertWritten ==
  /\ LoggedIn
  /\ disk' = [disk EXCEPT !.cert = "fresh"] /\ Go("save")
  /\ UNCHANGED <<loginVars, held>>

RowSaved ==
  /\ At("save")
  /\ disk' = [disk EXCEPT !.row = TRUE]
  /\ Go("open") /\ held' = {} /\ conns' = 0    \* node.stop()
  /\ UNCHANGED <<account, invites, paired, pending, call, calm>>

-----------------------------------------------------------------------------
(* from_network *)

\* _open_gateway_for_rest: from_network without a password.
OneShot(cmd) ==
  /\ At("none") /\ disk.row /\ held' = {} /\ conns' = 0 /\ call' = NoCall
  /\ proc' = [cmd |-> cmd, at |-> "open", pw |-> NoPassword, end |-> "none"]
  /\ UNCHANGED <<account, invites, paired, pending, disk, calm>>

\* "Password for ...": asked for after a PermissionError.
Prompted(pw) ==
  /\ At("prompt")
  /\ proc' = [proc EXCEPT !.at = "open", !.pw = pw]
  /\ UNCHANGED <<loginVars, disk, held>>

\* verify_cert of the file: framing, signature, expiry, network.
CertValid == disk.cert = "fresh"

\* The dialer is made of the node and the certificate, and the agents are asked for.
Bind == held' = {"node", "dialer"} /\ Go("agents") /\ Begin(<<"list_agents">>, NoPassword, "none")

Open ==
  /\ At("open")
  /\ \/ CertValid /\ Bind
     \/ /\ ~CertValid /\ proc.pw = NoPassword
        /\ Go("prompt") /\ UNCHANGED <<call, held>>
     \/ /\ ~CertValid /\ proc.pw # NoPassword
        /\ held' = {"node"} /\ Go("refresh") /\ Begin(LoginCalls, proc.pw, "none")
  /\ UNCHANGED <<account, invites, paired, pending, conns, disk, calm>>

Refreshed ==
  /\ At("refresh") /\ call.at = "done"
  /\ disk' = [disk EXCEPT !.cert = "fresh"] /\ Bind
  /\ UNCHANGED <<account, invites, paired, pending, conns, calm>>

\* Either RPC raises.
CallRaises ==
  /\ proc.at \in {"refresh", "agents"} /\ call.at \in {"refused", "failed"} /\ Raise
  /\ UNCHANGED <<loginVars, disk, held>>

\* No agent is registered, or the proxy cannot listen.
OpenRaises ==
  /\ ~calm /\ ((At("agents") /\ call.at = "done") \/ At("proxy"))
  /\ Raise
  /\ UNCHANGED <<loginVars, disk, held>>

AgentChosen ==
  /\ At("agents") /\ call.at = "done" /\ Go("proxy") /\ call' = NoCall
  /\ UNCHANGED <<account, invites, paired, pending, conns, disk, held, calm>>

ProxyStarted ==
  /\ At("proxy") /\ held' = held \cup {"proxy"} /\ Go("connect")
  /\ UNCHANGED <<loginVars, disk>>

-----------------------------------------------------------------------------
(* agents: one RPC, without a client *)

Agents ==
  /\ At("none") /\ disk.row /\ held' = {"node"} /\ conns' = 0
  /\ proc' = [cmd |-> "agents", at |-> "list", pw |-> NoPassword, end |-> "none"]
  /\ Begin(<<"list_agents">>, NoPassword, "none")
  /\ UNCHANGED <<account, invites, paired, pending, disk, calm>>

AgentsShown ==
  /\ At("list") /\ call.at \in {"done", "refused", "failed"}
  /\ proc' = [proc EXCEPT !.at = "release",
                         !.end = IF call.at = "done" THEN "returned" ELSE "raised"]
  /\ UNCHANGED <<loginVars, disk, held>>

-----------------------------------------------------------------------------
(* connect, the command's work, disconnect *)

\* The session, the socket with its AUTH exchange, the listener, the capability link.
Takes ==
  /\ At("connect")
  /\ held' = held \cup {Taken[Cardinality(held) + 1]}
  /\ Go(IF Cardinality(held) + 1 = Len(Taken) THEN "up" ELSE "connect")
  /\ UNCHANGED <<loginVars, disk>>

\* A refused authentication, another network, a socket that drops: disconnect().
ConnectRaises ==
  /\ ~calm /\ At("connect") /\ Raise
  /\ UNCHANGED <<loginVars, disk, held>>

\* The REPL or the one-shot ends, by an answer or an error it handles.
WorkEnds ==
  /\ At("up") /\ proc.cmd # "member"
  /\ proc' = [proc EXCEPT !.at = "release", !.end = "returned"]
  /\ UNCHANGED <<loginVars, disk, held>>

\* An exception leaves the REPL's loop, which has no finally; the member
\* commands call client.close(), which GatewayClient does not have.
WorkRaises ==
  /\ At("up")
  /\ \/ proc.cmd \in Connects /\ Exit("left")
     \/ proc.cmd = "member" /\ Exit("unclosed")
  /\ UNCHANGED <<loginVars, disk, held>>

\* Mutant: what from_network has taken is forgotten when it raises.
OnlyClient == held \cap {"session", "ws", "listener", "caps"}

Owned == held

\* disconnect(), or from_network's except block: the last taken goes first, and
\* with the node every connection to the coordinator.
Release ==
  /\ At("release")
  /\ IF Owned = {}
     THEN Exit(proc.end) /\ UNCHANGED <<held, conns>>
     ELSE LET last == CHOOSE i \in 1..Len(Taken) :
                        /\ Taken[i] \in Owned
                        /\ \A j \in (i + 1)..Len(Taken) : Taken[j] \notin Owned
          IN  /\ held' = held \ {Taken[last]} /\ UNCHANGED proc
              /\ conns' = IF Taken[last] = "node" THEN 0 ELSE conns
  /\ call' = NoCall
  /\ UNCHANGED <<account, invites, paired, pending, disk, calm>>

-----------------------------------------------------------------------------
(* The world *)

\* Ctrl-C cancels the command: _run_connect's except clause does not catch it
\* while logging in, nor does disconnect(); from_network and connect() do.
Interrupt ==
  /\ ~calm
  /\ \/ proc.at \in {"login", "release"} /\ Exit("interrupted") /\ UNCHANGED call
     \/ proc.at \in {"list", "refresh", "agents", "proxy", "connect"} /\ Raise /\ call' = NoCall
     \/ At("up") /\ proc.cmd = "rest" /\ Raise /\ UNCHANGED call
  /\ UNCHANGED <<account, invites, paired, pending, conns, disk, held, calm>>

Killed ==
  /\ ~calm /\ ~At("none") /\ Exit("killed")
  /\ held' = {} /\ conns' = 0 /\ call' = NoCall
  /\ UNCHANGED <<account, invites, paired, pending, disk, calm>>

CertExpires ==
  /\ ~calm /\ disk.cert = "fresh" /\ disk' = [disk EXCEPT !.cert = "expired"]
  /\ UNCHANGED <<loginVars, proc, held>>

\* The calls run while the command waits for them.
Calls == proc.at \in {"login", "list", "refresh", "agents"} /\ Rpc /\ UNCHANGED lifeVars

Starts == \/ \E cmd \in Connects, pw \in Passwords : Connect(cmd, pw)
          \/ Agents \/ \E cmd \in OneShots : OneShot(cmd)
          \/ \E pw \in Passwords : Prompted(pw)

Runs == \/ LoginRefused \/ LoginFailed \/ CertWritten \/ RowSaved
        \/ Open \/ Refreshed \/ CallRaises \/ OpenRaises \/ AgentChosen \/ ProxyStarted
        \/ AgentsShown \/ Takes \/ ConnectRaises \/ WorkEnds \/ WorkRaises \/ Release

LifeNext == \/ Starts \/ Runs \/ Calls \/ Interrupt \/ Killed \/ CertExpires
            \/ CalmsDown /\ UNCHANGED lifeVars

LifeSpec == LifeInit /\ [][LifeNext]_allVars

\* The process and its calls go on; the user runs connect again now and then
\* with the account's password: by handle if the membership is stored, with a
\* ticket for a new device if it is not.
LifeFairness ==
  /\ WF_allVars(Runs \/ Calls \/ \E pw \in Passwords : Prompted(pw))
  /\ SF_allVars(\E pw \in Passwords :
                  pw = account /\ Connect(IF disk.row THEN "handle" ELSE "device", pw))

FairLifeSpec == LifeSpec /\ LifeFairness
-----------------------------------------------------------------------------
\* A command that returns, or fails in from_network or connect(), has released
\* the node, the dialer, the proxy, the session and every connection, whichever
\* step failed or was cancelled; the question for a password holds nothing, for
\* from_network starts over after it.
NothingHeldAfter ==
  At("prompt") \/ (At("none") /\ proc.end \in {"returned", "raised"})
    => held = {} /\ conns = 0

\* What is stored of a membership is true at the coordinator: a row or a
\* certificate exists only for an account that was registered and to which this
\* device is bound, also after a kill between the RPCs and the two writes.
StoredIsPaired == disk.row \/ disk.cert # "none" => paired /\ account # NoPassword

\* An account that exists can be used from this device: whatever was lost,
\* expired, cancelled or killed before, also between register and the login
\* after it or between the two writes, some later connect gets through.
AccountGetsIn == (calm /\ account # NoPassword) ~> At("up")

=============================================================================
