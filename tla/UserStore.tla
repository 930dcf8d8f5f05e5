----------------------------- MODULE UserStore -----------------------------
(***************************************************************************)
(* networks.toml and the cached certificates (network/user_store.py), and  *)
(* the commands that change them: connect, logout and use (main.py), and   *)
(* every command that opens a gateway.  Each is a process that loads the   *)
(* file, works on its copy, for as long as a password prompt and a login   *)
(* take, and saves all of it.                                              *)
(*                                                                         *)
(* An account is a row: a handle on a network.  Rows keep their order.     *)
(* Files are inodes, because save() opens one fixed name and renames it:   *)
(* a writer may hold what has become the store.  Addresses, times and the  *)
(* active agent are left out.                                              *)
(***************************************************************************)
EXTENDS Naturals, Sequences, FiniteSets, SequencesExt

CONSTANTS
  Procs,       \* commands that run at a time
  Accounts,    \* handle@network
  NameOf,      \* the network's name
  MaxCommands, \* bound: commands started
  MaxCrashes,  \* bound: commands killed
  None

Names == {NameOf[a] : a \in Accounts}
Inodes == 0..Cardinality(Procs)

ASSUME StoreAssumption ==
  /\ IsFiniteSet(Procs) /\ DOMAIN NameOf = Accounts
  /\ None \notin Accounts \cup Names \cup Inodes
  /\ MaxCommands \in Nat /\ MaxCrashes \in Nat

VARIABLES
  store,    \* the inode of networks.toml
  tmp,      \* that of networks.toml.tmp, or None
  data,     \* contents of the inodes
  certs,    \* accounts whose certificate is on disk
  pc,       \* where each command is
  cmd,      \* its kind and its account
  mem,      \* its UserStore
  fd,       \* the inode it writes to
  joined,   \* accounts whose user was told "Joined", and did not log out
  out,      \* accounts whose user was told "Logged out", and did not come back
  overlapped, \* has a command been started while another was running?
  commands, \* commands started so far
  crashes   \* commands killed so far

vars == <<store, tmp, data, certs, pc, cmd, mem, fd, joined, out, overlapped, commands, crashes>>

Empty == [newer |-> FALSE, torn |-> FALSE, rows |-> <<>>, active |-> None]
Truncated == [Empty EXCEPT !.torn = TRUE]
Idle == [kind |-> "none", account |-> None]

Init ==
  /\ store = 0 /\ tmp = None
  /\ \E newer \in BOOLEAN : data = [i \in Inodes |-> [Empty EXCEPT !.newer = newer]]
  /\ certs = {} /\ joined = {} /\ out = {} /\ overlapped = FALSE
  /\ commands = 0 /\ crashes = 0
  /\ pc = [p \in Procs |-> "idle"] /\ cmd = [p \in Procs |-> Idle]
  /\ mem = [p \in Procs |-> Empty] /\ fd = [p \in Procs |-> 0]

\* A command is started; its process knows nothing of the others.
Begins(p) ==
  /\ pc[p] = "idle" /\ commands < MaxCommands /\ commands' = commands + 1
  /\ overlapped' = (overlapped \/ \E q \in Procs \ {p} : pc[q] # "idle")

Goto(p, place) == pc' = [pc EXCEPT ![p] = place]

\* The command ends, and what its process knew is gone.
Ends(p) ==
  /\ Goto(p, "idle") /\ cmd' = [cmd EXCEPT ![p] = Idle]
  /\ mem' = [mem EXCEPT ![p] = Empty] /\ fd' = [fd EXCEPT ![p] = 0]

-----------------------------------------------------------------------------
(* user_store.py *)

\* load: a file of a newer schema reads as an empty store, and so does one that
\* is truncated.
Loaded == IF data[store].newer \/ data[store].torn THEN Empty ELSE data[store]

Has(s, a) == Contains(s.rows, a)

\* add_or_update; the first network becomes the active one.
Added(s, a) ==
  IF Has(s, a) THEN s
  ELSE [s EXCEPT !.rows = Append(@, a),
                 !.active = IF @ = None THEN NameOf[a] ELSE @]

RowsNamed(s, n) == {i \in DOMAIN s.rows : NameOf[s.rows[i]] = n}

\* remove, with i the first row of that name.
Removed(s, i) ==
  LET left == RemoveAt(s.rows, i)
  IN  [s EXCEPT !.rows = left,
                !.active = IF @ # NameOf[s.rows[i]] THEN @
                           ELSE IF left = <<>> THEN None ELSE NameOf[left[1]]]

\* Mutant: the store itself is opened.
OpenStore(p) ==
  /\ pc[p] = "open" /\ data' = [data EXCEPT ![store] = Truncated]
  /\ fd' = [fd EXCEPT ![p] = store] /\ Goto(p, "write")
  /\ UNCHANGED <<store, tmp, certs, cmd, mem, joined, out, overlapped, commands, crashes>>

\* save: open the temporary file, truncating it; write it; rename it.
OpenTmp(p) ==
  /\ pc[p] = "open"
  /\ LET i == IF tmp # None THEN tmp
              ELSE CHOOSE j \in Inodes \ {store} :
                     \A q \in Procs : fd[q] # j \/ pc[q] # "write"
     IN  /\ tmp' = i /\ data' = [data EXCEPT ![i] = Truncated] /\ fd' = [fd EXCEPT ![p] = i]
  /\ Goto(p, "write")
  /\ UNCHANGED <<store, certs, cmd, mem, joined, out, overlapped, commands, crashes>>

WriteTmp(p) ==
  /\ pc[p] = "write"
  /\ data' = [data EXCEPT ![fd[p]] = mem[p]]
  /\ Goto(p, "rename")
  /\ UNCHANGED <<store, tmp, certs, cmd, mem, fd, joined, out, overlapped, commands, crashes>>

\* What the command says when its save has returned.
Told(p) ==
  \/ /\ cmd[p].kind = "connect"
     /\ joined' = joined \cup {cmd[p].account} /\ UNCHANGED out
  \/ /\ cmd[p].kind = "logout"
     /\ joined' = joined \ {cmd[p].account} /\ out' = out \cup {cmd[p].account}
  \/ cmd[p].kind \notin {"connect", "logout"} /\ UNCHANGED <<joined, out>>

Rename(p) ==
  /\ pc[p] = "rename" /\ tmp # None
  /\ store' = tmp /\ tmp' = None
  /\ data' = IF \E q \in Procs : pc[q] = "write" /\ fd[q] = store THEN data
             ELSE [data EXCEPT ![store] = Empty]
  /\ Told(p)
  /\ \/ /\ cmd[p].kind = "connect" /\ Goto(p, "gateway")
        /\ UNCHANGED <<cmd, mem, fd>>
     \/ cmd[p].kind # "connect" /\ Ends(p)
  /\ UNCHANGED <<certs, overlapped, commands, crashes>>

\* Somebody else has renamed it: FileNotFoundError ends the command.
RenameFails(p) ==
  /\ pc[p] = "rename" /\ tmp = None /\ Ends(p)
  /\ UNCHANGED <<store, tmp, data, certs, joined, out, overlapped, commands, crashes>>

-----------------------------------------------------------------------------
(* connect *)

Connect(p, a) ==
  /\ Begins(p)
  /\ cmd' = [cmd EXCEPT ![p] = [kind |-> "connect", account |-> a]]
  /\ mem' = [mem EXCEPT ![p] = Loaded] /\ out' = out \ {a}
  /\ Goto(p, "login")
  /\ UNCHANGED <<store, tmp, data, certs, fd, joined, crashes>>

\* from_network of any other command: a certificate that is missing or no longer
\* valid is renewed, and the time of the login saved.
Renew(p, a) ==
  /\ Begins(p) /\ Has(Loaded, a)
  /\ cmd' = [cmd EXCEPT ![p] = [kind |-> "renew", account |-> a]]
  /\ mem' = [mem EXCEPT ![p] = Loaded]
  /\ Goto(p, "login")
  /\ UNCHANGED <<store, tmp, data, certs, fd, joined, out, crashes>>

\* No password, no ticket for an unknown network, LoginError, no agent.
CommandFails(p) ==
  /\ pc[p] \in {"login", "gateway"} /\ Ends(p)
  /\ UNCHANGED <<store, tmp, data, certs, joined, out, overlapped, commands, crashes>>

\* A certificate: the row is added to the copy, the certificate written.
LoggedIn(p) ==
  /\ pc[p] = "login"
  /\ certs' = certs \cup {cmd[p].account}
  /\ mem' = [mem EXCEPT ![p] = Added(@, cmd[p].account)]
  /\ Goto(p, "open")
  /\ UNCHANGED <<store, tmp, data, cmd, fd, joined, out, overlapped, commands, crashes>>

\* Mutant: the copy of the beginning is saved again, without its new row.
GatewayStale(p) ==
  /\ pc[p] = "gateway"
  /\ cmd' = [cmd EXCEPT ![p].kind = "activate"]
  /\ mem' = [mem EXCEPT ![p] = [Empty EXCEPT !.active = NameOf[cmd[p].account]]]
  /\ Goto(p, "open")
  /\ UNCHANGED <<store, tmp, data, certs, fd, joined, out, overlapped, commands, crashes>>

\* Connected to the gateway: the file is loaded again for the active network.
Gateway(p) ==
  /\ pc[p] = "gateway"
  /\ cmd' = [cmd EXCEPT ![p].kind = "activate"]
  /\ mem' = [mem EXCEPT ![p] = [Loaded EXCEPT !.active = NameOf[cmd[p].account]]]
  /\ Goto(p, "open")
  /\ UNCHANGED <<store, tmp, data, certs, fd, joined, out, overlapped, commands, crashes>>

-----------------------------------------------------------------------------
(* logout, use *)

\* Mutant: the certificate stays on disk.
UnlinkNothing(a) == certs
Unlinked(a) == certs \ {a}

\* remove() deletes the certificate before the file is saved.
Logout(p, n) ==
  /\ Begins(p)
  /\ \E i \in RowsNamed(Loaded, n) :
       /\ \A j \in RowsNamed(Loaded, n) : i <= j
       /\ cmd' = [cmd EXCEPT ![p] = [kind |-> "logout", account |-> Loaded.rows[i]]]
       /\ mem' = [mem EXCEPT ![p] = Removed(Loaded, i)]
       /\ certs' = Unlinked(Loaded.rows[i])
  /\ Goto(p, "open")
  /\ UNCHANGED <<store, tmp, data, fd, joined, out, crashes>>

\* use: only the active agent, which is left out, but all is saved.
Use(p) ==
  /\ Begins(p)
  /\ cmd' = [cmd EXCEPT ![p] = [kind |-> "use", account |-> None]]
  /\ mem' = [mem EXCEPT ![p] = Loaded]
  /\ Goto(p, "open")
  /\ UNCHANGED <<store, tmp, data, certs, fd, joined, out, crashes>>

Crash(p) ==
  /\ pc[p] # "idle" /\ crashes < MaxCrashes
  /\ crashes' = crashes + 1 /\ Ends(p)
  /\ UNCHANGED <<store, tmp, data, certs, joined, out, overlapped, commands>>

Save(p) == OpenTmp(p) \/ WriteTmp(p) \/ Rename(p) \/ RenameFails(p)

Next ==
  \E p \in Procs :
    \/ Save(p) \/ CommandFails(p) \/ LoggedIn(p) \/ Gateway(p) \/ Use(p) \/ Crash(p)
    \/ \E a \in Accounts : Connect(p, a) \/ Renew(p, a)
    \/ \E n \in Names : Logout(p, n)

Spec == Init /\ [][Next]_vars
-----------------------------------------------------------------------------

\* "Survives across CLI / app sessions": an account that was joined is in the
\* file until its user logs out, whatever is run, fails or is killed meanwhile.
JoinedSurvives == \A a \in joined : Has(data[store], a)

\* It is so as long as one command runs at a time.
JoinedIsKept == ~overlapped => JoinedSurvives

\* Logging out leaves neither the row nor the certificate behind, in whatever
\* state earlier commands were killed, and the active network stays one of those
\* joined, also after one of two accounts of a network is removed.
LogoutForgets ==
  ~overlapped =>
    /\ \A a \in out : ~Has(data[store], a) /\ a \notin certs
    /\ data[store].active # None => RowsNamed(data[store], data[store].active) # {}

\* "Write the user store to disk atomically": the file is never half-written,
\* whenever a command is killed.  Commands that save at the same time share the
\* temporary file: one may publish what another has only truncated, but then
\* that one still holds it and completes it, unless it is killed.
SavedAtomically ==
  data[store].torn => /\ overlapped
                      /\ crashes > 0 \/ \E p \in Procs : pc[p] = "write" /\ fd[p] = store
=============================================================================
