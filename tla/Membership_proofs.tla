-------------------------- MODULE Membership_proofs --------------------------
(***************************************************************************)
(* Proofs about what makes this device a member: the identity file, for    *)
(* any number of processes and kills and every mixture of the two copies   *)
(* of the code, and the commands that open a gateway with the calls they   *)
(* make, for any passwords and any bound on the connections.               *)
(***************************************************************************)
EXTENDS ClientLifecycle, IdentityFile, TLAPS

-----------------------------------------------------------------------------
(* IdentityFile                                                            *)

\* Temporary files belong to the attempt under way or to one that was killed,
\* and a file is partial only while it is being written.
OwnTemps ==
  /\ \A p \in Procs, n \in Nat : <<p, n>> \in temps \cup partial => n <= crashes[p]
  /\ \A p \in Procs :
       /\ Mine(p) \in partial => pc[p] = "write"
       /\ Mine(p) \in temps => pc[p] \in {"write", "replace", "publish", "unlink", "lost"}
       /\ pc[p] \in {"write", "replace", "publish"} => key[p] # None
       /\ pc[p] \in {"replace", "publish", "unlink", "lost"} => Mine(p) \notin partial
       /\ pc[p] \in {"migrate", "read", "lost", "reread"} => file.key # None
       /\ pc[p] = "migrate" => key[p] # None

TypeInv ==
  /\ TypeOK /\ OwnTemps /\ NeverHalfWritten

\* What is read from a file stays true until the CLI's copy replaces it.
Holds(p) == key[p] = file.key \/ Replaced

\* What each place of load_or_create_identity knows of the file.
Knows(p) ==
  /\ pc[p] \in {"read", "lost", "reread"} => file.format # "absent"
  /\ pc[p] \in {"unlink", "done"} => Holds(p) /\ file.format # "absent"
  /\ pc[p] \in {"migrate", "replace"} => key[p] = Old
  /\ pc[p] = "write" => key[p] \in {Mine(p), Old}
  /\ pc[p] = "publish" => key[p] = Mine(p)

\* An installation that was found is never taken for a first start: a process
\* holds the old key only while it is on disk, and then none has generated one.
OldInstall ==
  /\ file.format = "pem" => file.key = Old
  /\ \A p \in Procs : key[p] = Old => file.key = Old
  /\ file.key = Old => \A p \in Procs :
       /\ pc[p] \notin {"generate", "publish", "unlink", "lost", "reread"}
       /\ pc[p] \in {"write", "replace"} => key[p] = Old

Persisted == OldInstall /\ \A p \in Procs : Knows(p)

\* A first start, and every older installation, is well typed.
LEMMA TypeInit == Init => TypeInv
  BY IdentityAssumption
  DEF Init, TypeInv, TypeOK, OwnTemps, NeverHalfWritten, Mine, Keys, Formats, Places

\* The name an attempt gives to its own key and file is a key, and no other.
LEMMA MineIsKey ==
  ASSUME TypeOK, NEW p \in Procs
  PROVE  /\ Mine(p) \in Procs \X (0..MaxCrashes) /\ Mine(p) \in Keys
         /\ Mine(p) # None /\ Mine(p) # Old
  BY IdentityAssumption DEF TypeOK, Mine, Keys

\* Every step keeps the types, and each temporary file its owner.
LEMMA TypeStep == TypeInv /\ [Next]_vars => TypeInv'
<1> SUFFICES ASSUME TypeInv, Next PROVE TypeInv'
  <2>1. CASE UNCHANGED vars
    BY <2>1 DEF TypeInv, TypeOK, OwnTemps, NeverHalfWritten, Mine, vars
  <2> QED BY <2>1
<1> PICK p \in Procs : Step(p) \/ Crash(p)
  BY DEF Next
<1> USE IdentityAssumption, MineIsKey
        DEF TypeInv, TypeOK, OwnTemps, NeverHalfWritten, Mine, Goto, Places
<1>1. CASE Stat(p)
  BY <1>1 DEF Stat, Formats
<1>2. CASE Read(p)
  BY <1>2 DEF Read, Formats
<1>3. CASE CreateTemp(p)
  BY <1>3 DEF CreateTemp, Keys
<1>4. CASE WriteTemp(p)
  BY <1>4 DEF WriteTemp, NextPlace
<1>5. CASE WriteFails(p)
  BY <1>5 DEF WriteFails
<1>6. CASE ReplaceMigrated(p)
  BY <1>6 DEF ReplaceMigrated, Replaces, Published, Formats
<1>7. CASE PublishByReplacing(p)
  BY <1>7 DEF PublishByReplacing, Replaces, Published, Formats
<1>8. CASE PublishByLinking(p)
  BY <1>8 DEF PublishByLinking, Published, Formats
<1>9. CASE Unlink(p)
  BY <1>9 DEF Unlink
<1>10. CASE ReStat(p)
  BY <1>10 DEF ReStat
<1>11. CASE Crash(p)
  BY <1>11 DEF Crash, Keys
<1> QED BY <1>1, <1>2, <1>3, <1>4, <1>5, <1>6, <1>7, <1>8, <1>9, <1>10, <1>11 DEF Step

\* Every mixture of the two copies keeps the shape of the state.
THEOREM TypeCorrect == Spec => []TypeOK
<1>1. TypeInv => TypeOK
  BY DEF TypeInv
<1> QED
  BY TypeInit, TypeStep, <1>1, PTL DEF Spec

\* "A crash mid-rename leaves either the old file intact or no file at all": no
\* process ever publishes a file that is not completely written.
THEOREM NoHalfWrittenKey == Spec => []NeverHalfWritten
<1>1. TypeInv => NeverHalfWritten
  BY DEF TypeInv
<1> QED
  BY TypeInit, TypeStep, <1>1, PTL DEF Spec

\* A process that has returned, failed or not begun has no temporary file.
THEOREM NoTemporaryLeft == Spec => []NoTempLeft
<1>1. TypeInv => NoTempLeft
  BY DEF TypeInv, OwnTemps, NoTempLeft
<1> QED
  BY TypeInit, TypeStep, <1>1, PTL DEF Spec
-----------------------------------------------------------------------------
\* A key on disk stays, or is replaced by one of the CLI's copy for good.
LEMMA KeyStays ==
  ASSUME TypeInv, Persisted, [Next]_vars, file.key # None
  PROVE  /\ file'.key = file.key \/ Replaced'
         /\ Replaced => Replaced'
         /\ file.key = Old => file'.key = Old
         /\ file'.format # "absent"
<1>0. file.format # "absent"
  BY DEF TypeInv, TypeOK
<1>1. CASE UNCHANGED file
  BY <1>0, <1>1 DEF Replaced
<1>2. CASE ~UNCHANGED file
  <2> PICK p \in Procs : ReplaceMigrated(p) \/ PublishByReplacing(p)
    BY <1>0, <1>2
    DEF Next, Step, Stat, Read, CreateTemp, WriteTemp, WriteFails, PublishByLinking,
        Unlink, ReStat, Crash, vars
  <2>0. file'.key = key[p] /\ file'.format # "absent"
    BY DEF ReplaceMigrated, PublishByReplacing, Replaces, Published
  <2>1. CASE ReplaceMigrated(p)
    <3>1. file.key = Old /\ key[p] = Old
      BY <2>1 DEF ReplaceMigrated, Persisted, Knows, OldInstall
    <3>2. ~Replaced
      BY <3>1, IdentityAssumption DEF Replaced
    <3> QED BY <2>0, <3>1, <3>2
  <2>2. CASE PublishByReplacing(p)
    <3>1. key[p] = Mine(p) /\ p \in Procs \ Linking /\ pc[p] = "publish"
      BY <2>2 DEF PublishByReplacing, Persisted, Knows
    <3>2. Replaced'
      BY <2>0, <3>1 DEF Replaced, Mine, TypeInv, TypeOK
    <3>3. file.key # Old
      BY <3>1 DEF Persisted, OldInstall
    <3> QED BY <2>0, <3>2, <3>3
  <2> QED BY <2>1, <2>2
<1> QED BY <1>1, <1>2

\* Before anybody has read or written the file nobody knows a key.
LEMMA PersistedInit == Init => Persisted
  BY IdentityAssumption DEF Init, Persisted, OldInstall, Knows

\* What a process knows survives the steps of the others.
LEMMA OthersKeepKnowing ==
  ASSUME TypeInv, Persisted, [Next]_vars,
         NEW q \in Procs, pc'[q] = pc[q], key'[q] = key[q], crashes'[q] = crashes[q]
  PROVE  Knows(q)'
<1>1. Knows(q)
  BY DEF Persisted
<1>2. CASE file.key = None
  <2>1. file.format = "absent"
    BY <1>2 DEF TypeInv, TypeOK
  <2> QED BY <1>1, <2>1 DEF Knows, Mine
<1>3. CASE file.key # None
  <2>1. /\ file'.key = file.key \/ Replaced'
        /\ Replaced => Replaced'
        /\ file'.format # "absent"
    BY <1>3, KeyStays
  <2> QED BY <1>1, <2>1 DEF Knows, Holds, Mine
<1> QED BY <1>2, <1>3

\* What a process knows after a step of its own.
LEMMA OwnStepKnows ==
  ASSUME TypeInv, Persisted, NEW p \in Procs, Step(p) \/ Crash(p)
  PROVE  Knows(p)'
<1>0. /\ Knows(p) /\ OldInstall
      /\ pc \in [Procs -> Places] /\ key \in [Procs -> Keys]
      /\ (file.format = "absent" <=> file.key = None)
  BY DEF Persisted, TypeInv, TypeOK
<1> USE <1>0, IdentityAssumption DEF Knows, Goto, Mine
<1>1. CASE Stat(p)
  BY <1>1 DEF Stat
<1>2. CASE Read(p)
  BY <1>2 DEF Read, OldInstall, Holds
<1>3. CASE CreateTemp(p)
  BY <1>3 DEF CreateTemp
<1>4. CASE WriteTemp(p)
  BY <1>4, MineIsKey DEF WriteTemp, NextPlace, TypeInv
<1>5. CASE WriteFails(p)
  BY <1>5 DEF WriteFails
<1>6. CASE ReplaceMigrated(p)
  BY <1>6 DEF ReplaceMigrated, Replaces, Published, Holds
<1>7. CASE PublishByReplacing(p)
  BY <1>7 DEF PublishByReplacing, Replaces, Published, Holds
<1>8. CASE PublishByLinking(p)
  BY <1>8 DEF PublishByLinking, Published, Holds
<1>9. CASE Unlink(p)
  BY <1>9 DEF Unlink, Holds, Replaced
<1>10. CASE ReStat(p)
  BY <1>10 DEF ReStat
<1>11. CASE Crash(p)
  BY <1>11 DEF Crash
<1> QED
  BY <1>1, <1>2, <1>3, <1>4, <1>5, <1>6, <1>7, <1>8, <1>9, <1>10, <1>11 DEF Step

\* An installation that was found is never taken for a first start.
LEMMA OldStays ==
  ASSUME TypeInv, Persisted, Next
  PROVE  OldInstall'
<1> PICK p \in Procs : Step(p) \/ Crash(p)
  BY DEF Next
<1>0. /\ Knows(p) /\ OldInstall
      /\ pc \in [Procs -> Places] /\ key \in [Procs -> Keys]
      /\ (file.format = "absent" <=> file.key = None)
      /\ Mine(p) # Old /\ None # Old
  BY MineIsKey, IdentityAssumption DEF Persisted, TypeInv, TypeOK
<1> USE <1>0 DEF Knows, OldInstall, Goto
<1>1. CASE Stat(p)
  BY <1>1 DEF Stat
<1>2. CASE Read(p)
  BY <1>2 DEF Read
<1>3. CASE CreateTemp(p)
  BY <1>3 DEF CreateTemp
<1>4. CASE WriteTemp(p)
  BY <1>4 DEF WriteTemp, NextPlace
<1>5. CASE WriteFails(p)
  BY <1>5 DEF WriteFails
<1>6. CASE ReplaceMigrated(p)
  BY <1>6 DEF ReplaceMigrated, Replaces, Published
<1>7. CASE PublishByReplacing(p)
  BY <1>7 DEF PublishByReplacing, Replaces, Published
<1>8. CASE PublishByLinking(p)
  BY <1>8 DEF PublishByLinking, Published
<1>9. CASE Unlink(p)
  BY <1>9 DEF Unlink
<1>10. CASE ReStat(p)
  BY <1>10 DEF ReStat
<1>11. CASE Crash(p)
  BY <1>11 DEF Crash
<1> QED
  BY <1>1, <1>2, <1>3, <1>4, <1>5, <1>6, <1>7, <1>8, <1>9, <1>10, <1>11 DEF Step

\* Every step leaves each process knowing the key on disk, if it should.
LEMMA PersistedStep == TypeInv /\ Persisted /\ [Next]_vars => Persisted'
<1> SUFFICES ASSUME TypeInv, Persisted, Next PROVE Persisted'
  <2>1. CASE UNCHANGED vars
    BY <2>1 DEF Persisted, OldInstall, Knows, Holds, Replaced, Mine, vars
  <2> QED BY <2>1
<1>1. ASSUME NEW q \in Procs PROVE Knows(q)'
  <2> PICK p \in Procs : Step(p) \/ Crash(p)
    BY DEF Next
  <2>1. CASE p # q
    <3>1. pc'[q] = pc[q] /\ key'[q] = key[q] /\ crashes'[q] = crashes[q]
      BY <2>1
      DEF Step, Stat, Read, CreateTemp, WriteTemp, WriteFails, ReplaceMigrated,
          PublishByReplacing, PublishByLinking, Replaces, Unlink, ReStat, Crash, Goto,
          TypeInv, TypeOK
    <3> QED BY <3>1, OthersKeepKnowing
  <2> QED BY <2>1, OwnStepKnows
<1> QED BY <1>1, OldStays DEF Persisted

\* "Never return our discarded candidate: both Desktop and CLI must bind Iroh to
\* the persisted winner": the key a process goes on with is the one on disk,
\* unless a process of the CLI's copy has put its own there.
THEOREM ReturnsWinner == Spec => []WinnerIsReturned
<1>1. TypeInv /\ Persisted => WinnerIsReturned
  BY DEF Persisted, Knows, Holds, WinnerIsReturned
<1>2. Init => TypeInv /\ Persisted
  BY TypeInit, PersistedInit
<1>3. TypeInv /\ Persisted /\ [Next]_vars => (TypeInv /\ Persisted)'
  BY TypeStep, PersistedStep
<1> QED
  BY <1>1, <1>2, <1>3, PTL DEF Spec

\* And the first key published stays the identity of the machine, with the same
\* exception.
THEOREM IdentityStays == Spec => IdentityIsPermanent
<1>1. Init => TypeInv /\ Persisted
  BY TypeInit, PersistedInit
<1>2. TypeInv /\ Persisted /\ [Next]_vars => (TypeInv /\ Persisted)'
  BY TypeStep, PersistedStep
<1>3. TypeInv /\ Persisted /\ [Next]_vars
        => [file.key # None => file'.key = file.key \/ Replaced']_file
  BY KeyStays
<1> QED
  BY <1>1, <1>2, <1>3, PTL DEF Spec, IdentityIsPermanent

-----------------------------------------------------------------------------
(* CoordinatorLogin and ClientLifecycle                                    *)

Logins == {<<"login_finish">>, LoginCalls, RegisterCalls}
Underway == {"dial", "open", "read"}

CallType ==
  call \in [todo : Logins \cup {<<"list_agents">>, <<>>}, pw : Passwords \cup {NoPassword},
            invite : Connects \cup {"none"}, at : Underway \cup {"none", "done", "refused", "failed"},
            reply : {"none", "result", "error"}]

LoginType ==
  /\ account \in Passwords \cup {NoPassword} /\ invites \in SUBSET Tickets
  /\ paired \in BOOLEAN /\ conns \in 0..MaxOpen /\ calm \in BOOLEAN
  /\ CallType

\* A session at the coordinator is over the account's verifier; a call that
\* proves a password has one; the answer to login_finish is true.
Coordinated ==
  /\ pending \in {NoPassword, account}
  /\ paired => account # NoPassword
  /\ call.at \in {"open", "read"} => conns # 0
  /\ call.at \in Underway => \/ call.todo = <<"list_agents">>
                             \/ call.todo \in Logins /\ call.pw \in Passwords
  /\ call.at \in {"dial", "open"} => call.reply = "none"
  /\ call.at = "read" /\ call.todo = <<"login_finish">> /\ call.reply = "result" => paired

LoginInv == LoginType /\ Coordinated

-----------------------------------------------------------------------------
ProcType ==
  /\ disk \in [row : BOOLEAN, cert : {"none", "fresh", "expired"}]
  /\ proc \in [cmd : Connects \cup OneShots \cup {"agents", "none"},
               at : {"none", "login", "save", "open", "prompt", "refresh", "agents", "proxy",
                     "connect", "list", "up", "release"},
               pw : Passwords \cup {NoPassword},
               end : {"none", "unknown", "refused", "raised", "returned", "left", "unclosed",
                      "interrupted", "killed"}]
  /\ proc.at = "login" => proc.pw \in Passwords

\* Whoever waits for a login waits for the calls of a login, and has bound this
\* device when they are done.
LogsIn ==
  /\ proc.at \in {"login", "refresh"} =>
       /\ call.at \in Underway => call.todo \in Logins
       /\ call.at = "done" => paired
  /\ proc.at = "save" => paired /\ call.at = "done"

StoreInv == LoginInv /\ ProcType /\ LogsIn /\ StoredIsPaired

\* Connections to the coordinator are the node's.
HeldInv ==
  /\ conns = 0 \/ "node" \in held
  /\ proc.at \in {"login", "list", "refresh", "agents"} => "node" \in held
  /\ At("open") => held = {} /\ conns = 0
  /\ NothingHeldAfter

-----------------------------------------------------------------------------
\* The RPCs of a login, one after the other.
LEMMA LoginsStep ==
  ASSUME NEW t \in Logins
  PROVE  /\ Len(t) > 1 => Tail(t) \in Logins
         /\ Len(t) = 1 => t = <<"login_finish">>
         /\ t # <<"list_agents">> /\ t # <<>>
<1>1. CASE t = <<"login_finish">>
  BY <1>1
<1>2. CASE t = LoginCalls
  BY <1>2 DEF LoginCalls, Logins
<1>3. CASE t = RegisterCalls
  BY <1>3 DEF LoginCalls, RegisterCalls, Logins
<1> QED BY <1>1, <1>2, <1>3 DEF Logins

\* What the first RPC of each call is.
LEMMA Heads ==
  /\ Head(<<"login_finish">>) = "login_finish" /\ Head(<<"list_agents">>) = "list_agents"
  /\ Head(RegisterCalls) = "register" /\ Head(LoginCalls) = "login_init"
  /\ ~(Len(<<"list_agents">>) > 1)
  BY DEF LoginCalls, RegisterCalls

\* A new call is of the declared type.
LEMMA CallingType ==
  ASSUME NEW todo \in Logins \cup {<<"list_agents">>}, NEW pw \in Passwords \cup {NoPassword},
         NEW invite \in Connects \cup {"none"}
  PROVE  /\ Calling(todo, pw, invite).todo = todo /\ Calling(todo, pw, invite).at = "dial"
         /\ Calling(todo, pw, invite).pw = pw /\ Calling(todo, pw, invite).reply = "none"
         /\ Calling(todo, pw, invite)
              \in [todo : Logins \cup {<<"list_agents">>, <<>>}, pw : Passwords \cup {NoPassword},
                   invite : Connects \cup {"none"},
                   at : Underway \cup {"none", "done", "refused", "failed"},
                   reply : {"none", "result", "error"}]
  BY DEF Calling, Underway

\* No call is a call of the declared type.
LEMMA NoCallType ==
  /\ NoCall.at = "none" /\ NoCall.todo = <<>> /\ NoCall.reply = "none"
  /\ NoCall \in [todo : Logins \cup {<<"list_agents">>, <<>>}, pw : Passwords \cup {NoPassword},
                 invite : Connects \cup {"none"},
                 at : Underway \cup {"none", "done", "refused", "failed"},
                 reply : {"none", "result", "error"}]
  BY DEF NoCall, Underway

\* A call ends without an RPC under way.
LEMMA EndsCall ==
  ASSUME NEW how \in {"failed", "refused", "done"}, Ends(how)
  PROVE  CallType' /\ call'.at = how
  BY NoCallType DEF Ends, NoCall, CallType, Underway

\* Before any command no call is under way and no connection open.
LEMMA InitCoordinated == InitLogin => LoginInv
<1> SUFFICES ASSUME InitLogin PROVE LoginInv
  OBVIOUS
<1>1. CallType /\ call.at = "none"
  BY NoCallType DEF InitLogin, CallType
<1>2. conns \in 0..MaxOpen
  BY OpenAssumption DEF InitLogin
<1> QED BY <1>1, <1>2 DEF InitLogin, LoginInv, LoginType, Coordinated, Underway

-----------------------------------------------------------------------------
\* The connection of an RPC: every step of it that does not end the call.
LEMMA ConnectionSteps ==
  ASSUME LoginInv, Dialled \/ Opened
  PROVE  LoginInv' /\ UNCHANGED paired /\ call.at \in Underway /\ call'.at \in Underway
         /\ call'.todo = call.todo
<1>1. CASE Dialled
  <2>1. /\ call'.at = "open" /\ call'.todo = call.todo /\ call'.pw = call.pw /\ CallType'
        /\ call.at = "dial" /\ call'.reply = call.reply
        /\ call.at \in Underway /\ UNCHANGED <<account, invites, paired, pending, calm>>
    BY <1>1 DEF Dialled, LoginInv, LoginType, CallType, Underway
  <2>2. conns' \in 0..MaxOpen /\ conns' # 0
    BY <1>1, OpenAssumption DEF Dialled, LoginInv, LoginType
  <2> QED BY <2>1, <2>2 DEF LoginInv, LoginType, Coordinated, Underway
<1>2. CASE Opened
  <2>1. /\ call'.at = "read" /\ call'.todo = call.todo /\ call'.pw = call.pw /\ CallType'
        /\ call.at = "open" /\ UNCHANGED <<account, invites, paired, pending, conns, calm>>
        /\ call'.reply = call.reply
    BY <1>2 DEF Opened, LoginInv, LoginType, CallType, Underway
  <2> QED BY <2>1 DEF LoginInv, LoginType, Coordinated, Underway
<1> QED BY <1>1, <1>2

\* A call that ends, however it ends, closes its connection with it.
LEMMA FailedCall ==
  ASSUME LoginInv, NEW how \in {"failed", "refused", "done"}, Ends(how),
         UNCHANGED conns \/ (call.at = "read" /\ conns' = conns - 1),
         UNCHANGED <<account, invites, paired, pending, calm>>
  PROVE  LoginInv' /\ call'.at = how
<1>1. CallType' /\ call'.at = how
  BY EndsCall
<1>2. conns' \in 0..MaxOpen
  BY OpenAssumption DEF LoginInv, LoginType, Coordinated
<1> QED BY <1>1, <1>2 DEF LoginInv, LoginType, Coordinated, Underway

\* The answer ends the call, or the next RPC of it begins.
LEMMA AnswerSteps ==
  ASSUME LoginInv, Answered
  PROVE  /\ LoginInv' /\ UNCHANGED paired
         /\ call.todo \in Logins =>
              \/ call'.at \in Underway /\ call'.todo \in Logins
              \/ call'.at = "refused"
              \/ call'.at = "done" /\ paired
<1>1. /\ call.at = "read" /\ conns' = conns - 1 /\ UNCHANGED <<account, invites, paired, pending, calm>>
  BY DEF Answered
<1>2. CASE call.reply = "error" /\ Ends("refused")
  BY <1>1, <1>2, FailedCall
<1>3. CASE call.reply = "result" /\ Len(call.todo) = 1 /\ Ends("done")
  <2>1. LoginInv' /\ call'.at = "done"
    BY <1>1, <1>3, FailedCall
  <2>2. call.todo \in Logins => paired
    BY <1>1, <1>3, LoginsStep DEF LoginInv, Coordinated
  <2> QED BY <1>1, <2>1, <2>2
<1>4. CASE /\ call.reply = "result" /\ Len(call.todo) > 1
           /\ call' = [call EXCEPT !.todo = Tail(@), !.at = "dial", !.reply = "none"]
  <2>1. call.todo \in Logins /\ call.pw \in Passwords
    <3>1. call.todo # <<"list_agents">>
      BY <1>4, Heads, Zenon
    <3> QED BY <1>1, <3>1 DEF LoginInv, Coordinated, Underway
  <2>2. Tail(call.todo) \in Logins
    BY <1>4, <2>1, LoginsStep
  <2>3. /\ call'.at = "dial" /\ call'.todo = Tail(call.todo) /\ call'.reply = "none"
        /\ call'.pw = call.pw /\ CallType'
    BY <1>4, <2>2 DEF LoginInv, LoginType, CallType, Underway
  <2>4. conns' \in 0..MaxOpen
    BY <1>1, OpenAssumption DEF LoginInv, LoginType, Coordinated
  <2> QED BY <1>1, <2>1, <2>2, <2>3, <2>4 DEF LoginInv, LoginType, Coordinated, Underway
<1> QED BY <1>2, <1>3, <1>4 DEF Answered

\* What the coordinator does: it binds the device only after a proof of the
\* account's password, and a device that is bound stays so.
LEMMA CoordinatorSteps ==
  ASSUME LoginInv, CoordinatorActs
  PROVE  /\ LoginInv' /\ (paired => paired')
         /\ call'.at = "read" /\ call'.todo = call.todo /\ call.at = "read"
<1>1. /\ call.at = "read" /\ call.reply = "none" /\ UNCHANGED <<conns, calm>>
      /\ \E answer \in {"result", "error"} : Reply(answer)
  BY DEF CoordinatorActs, Registered, LoginInit, LoginFinish, AgentsListed, Asked
<1>2. /\ call'.at = "read" /\ call'.todo = call.todo /\ call'.pw = call.pw /\ CallType'
  BY <1>1 DEF Reply, LoginInv, LoginType, CallType, Underway
<1>3. CASE Registered
  <2>1. call.todo = RegisterCalls /\ call.pw \in Passwords
    BY <1>1, <1>3, Heads DEF Registered, Asked, Method, LoginInv, Coordinated, Underway, Logins
  <2>2. call'.todo # <<"login_finish">>
    BY <1>2, <2>1, Heads
  <2>3. /\ UNCHANGED <<invites, paired, pending, conns, calm>>
        /\ \/ account = NoPassword /\ account' = call.pw
           \/ UNCHANGED account
    BY <1>3 DEF Registered
  <2> QED BY <1>1, <1>2, <2>1, <2>2, <2>3, PasswordsAssumption
          DEF LoginInv, LoginType, Coordinated, Underway
<1>4. CASE LoginInit
  <2>1. call'.todo # <<"login_finish">>
    BY <1>2, <1>4, Heads DEF LoginInit, Asked, Method
  <2> QED BY <1>1, <1>2, <1>4, <2>1 DEF LoginInit, LoginInv, LoginType, Coordinated, Underway
<1>5. CASE LoginFinish
  <2>1. call.pw \in Passwords /\ call.pw # NoPassword
    BY <1>1, <1>5, Heads, PasswordsAssumption
       DEF LoginFinish, Asked, Method, LoginInv, Coordinated, Underway
  <2>2. /\ pending' = NoPassword /\ UNCHANGED <<account, conns, calm>>
        /\ \/ pending = call.pw /\ paired' = TRUE /\ invites' = invites \ {call.invite}
           \/ UNCHANGED <<paired, invites>> /\ Reply("error")
    BY <1>5 DEF LoginFinish, ProofVerifies
  <2>3. call'.reply = "result" => paired'
    BY <2>2 DEF Reply, LoginInv, LoginType, CallType
  <2>4. paired' => account # NoPassword
    BY <2>1, <2>2 DEF LoginInv, Coordinated
  <2> QED BY <1>1, <1>2, <2>2, <2>3, <2>4 DEF LoginInv, LoginType, Coordinated, Underway
<1>6. CASE AgentsListed
  <2>1. call'.todo # <<"login_finish">>
    BY <1>2, <1>6, Heads DEF AgentsListed, Asked, Method
  <2> QED BY <1>1, <1>2, <1>6, <2>1 DEF AgentsListed, LoginInv, LoginType, Coordinated, Underway
<1> QED BY <1>1, <1>2, <1>3, <1>4, <1>5, <1>6 DEF CoordinatorActs

\* Every step of the calls: a login goes on, fails, or is done with the device bound.
LEMMA RpcSteps ==
  ASSUME LoginInv, Rpc
  PROVE  /\ LoginInv' /\ (paired => paired')
         /\ \/ UNCHANGED call
            \/ /\ call.at \in Underway
               /\ call.todo \in Logins =>
                    \/ call'.at \in Underway /\ call'.todo \in Logins
                    \/ call'.at \in {"refused", "failed"}
                    \/ call'.at = "done" /\ paired'
<1>1. CASE Dialled \/ Opened
  BY <1>1, ConnectionSteps
<1>2. CASE DialFails \/ OpenFails \/ Lost
  BY <1>2, FailedCall DEF DialFails, OpenFails, Lost, Underway
<1>3. CASE CutShort
  BY <1>3, FailedCall DEF CutShort, Underway
<1>4. CASE Answered
  BY <1>4, AnswerSteps DEF Answered, Underway
<1>5. CASE CoordinatorActs
  BY <1>5, CoordinatorSteps DEF Underway
<1>6. CASE LoginForgotten
  BY <1>6 DEF LoginForgotten, LoginInv, LoginType, CallType, Coordinated
<1> QED BY <1>1, <1>2, <1>3, <1>4, <1>5, <1>6 DEF Rpc

-----------------------------------------------------------------------------
\* The commands.
LEMMA StoreInit == LifeInit => StoreInv
<1> SUFFICES ASSUME LifeInit PROVE StoreInv
  OBVIOUS
<1>1. LoginInv
  BY InitCoordinated DEF LifeInit
<1>2. ProcType /\ proc.at = "none"
  BY DEF LifeInit, ProcType
<1>3. StoredIsPaired
  BY DEF LifeInit, StoredIsPaired
<1> QED BY <1>1, <1>2, <1>3 DEF StoreInv, LogsIn

\* A new call, or none, or the one there is, leaves the coordinator as it was.
LEMMA NewCall ==
  ASSUME StoreInv, UNCHANGED <<account, invites, paired, pending>>, calm' \in BOOLEAN,
         \/ /\ \E todo \in Logins \cup {<<"list_agents">>}, pw \in Passwords \cup {NoPassword},
                  invite \in Connects \cup {"none"} :
                    /\ call' = Calling(todo, pw, invite)
                    /\ todo = <<"list_agents">> \/ pw \in Passwords
            /\ conns' \in {0, conns}
         \/ call' = NoCall /\ conns' \in {0, conns}
         \/ UNCHANGED <<call, conns>>
  PROVE  LoginInv'
<1>1. conns' \in 0..MaxOpen
  BY OpenAssumption DEF StoreInv, LoginInv, LoginType
<1>2. CASE \E todo \in Logins \cup {<<"list_agents">>}, pw \in Passwords \cup {NoPassword},
              invite \in Connects \cup {"none"} :
                /\ call' = Calling(todo, pw, invite)
                /\ todo = <<"list_agents">> \/ pw \in Passwords
  <2>1. PICK todo \in Logins \cup {<<"list_agents">>}, pw \in Passwords \cup {NoPassword},
             invite \in Connects \cup {"none"} :
               /\ call' = Calling(todo, pw, invite)
               /\ todo = <<"list_agents">> \/ pw \in Passwords
    BY <1>2
  <2>2. /\ CallType' /\ call'.at = "dial" /\ call'.todo = todo /\ call'.pw = pw
        /\ call'.reply = "none"
    BY <2>1, CallingType DEF CallType
  <2>3. call'.todo = <<"list_agents">> \/ (call'.todo \in Logins /\ call'.pw \in Passwords)
    BY <2>1, <2>2
  <2> QED BY <1>1, <2>2, <2>3 DEF StoreInv, LoginInv, LoginType, Coordinated
<1>3. CASE call' = NoCall
  <2>1. CallType' /\ call'.at = "none"
    BY <1>3, NoCallType DEF CallType
  <2> QED BY <1>1, <2>1 DEF StoreInv, LoginInv, LoginType, Coordinated, Underway
<1>4. CASE UNCHANGED <<call, conns>>
  BY <1>4 DEF StoreInv, LoginInv, LoginType, CallType, Coordinated
<1> QED BY <1>2, <1>3, <1>4

\* What has been stored stays true as long as the device stays bound.
LEMMA StillPaired ==
  ASSUME StoreInv, UNCHANGED disk, LoginInv', paired => paired'
  PROVE  StoredIsPaired'
  BY DEF StoreInv, StoredIsPaired, LoginInv, Coordinated

\* A step of the command to a place where no login is waited for.
LEMMA CommandMoves ==
  ASSUME StoreInv, LoginInv', paired => paired', UNCHANGED disk, ProcType',
         proc'.at \notin {"login", "refresh", "save"}
  PROVE  StoreInv'
  BY StillPaired DEF StoreInv, LogsIn

\* Starting a command keeps what the store says true.
LEMMA StartsStore ==
  ASSUME StoreInv, Starts
  PROVE  StoreInv'
<1>1. ASSUME NEW cmd \in Connects, NEW pw \in Passwords, Connect(cmd, pw) PROVE StoreInv'
  <2>1. UNCHANGED <<account, invites, paired, pending, disk, calm>> /\ conns' = 0
    BY <1>1 DEF Connect
  <2>2. CASE ~disk.row /\ cmd = "handle"
    <3>1. proc' = [cmd |-> cmd, at |-> "none", pw |-> pw, end |-> "unknown"] /\ call' = NoCall
      BY <1>1, <2>2 DEF Connect
    <3>2. ProcType' /\ proc'.at = "none"
      BY <2>1, <3>1 DEF StoreInv, ProcType
    <3>3. LoginInv'
      BY <2>1, <3>1, NewCall DEF StoreInv, LoginInv, LoginType
    <3> QED BY <2>1, <3>2, <3>3, CommandMoves
  <2>3. CASE ~(~disk.row /\ cmd = "handle")
    <3>1. /\ proc' = [cmd |-> cmd, at |-> "login", pw |-> pw, end |-> "none"]
          /\ call' = Calling(LoginFor(cmd), pw, IF disk.row THEN "none" ELSE cmd)
      BY <1>1, <2>3 DEF Connect, Begin
    <3>2. LoginFor(cmd) \in Logins
      BY DEF LoginFor, Logins
    <3>3. ProcType' /\ proc'.at = "login"
      BY <2>1, <3>1 DEF StoreInv, ProcType
    <3>4. LoginInv'
      BY <1>1, <2>1, <3>1, <3>2, NewCall DEF StoreInv, LoginInv, LoginType
    <3>5. call'.at = "dial" /\ call'.todo \in Logins
      BY <3>1, <3>2, CallingType
    <3> QED BY <2>1, <3>3, <3>4, <3>5, StillPaired DEF StoreInv, LogsIn
  <2> QED BY <2>2, <2>3
<1>2. CASE Agents
  <2>1. /\ UNCHANGED <<account, invites, paired, pending, disk, calm>> /\ conns' = 0
        /\ proc' = [cmd |-> "agents", at |-> "list", pw |-> NoPassword, end |-> "none"]
        /\ call' = Calling(<<"list_agents">>, NoPassword, "none")
    BY <1>2 DEF Agents, Begin
  <2>2. ProcType' /\ proc'.at = "list"
    BY <2>1 DEF StoreInv, ProcType
  <2>3. LoginInv'
    BY <2>1, NewCall DEF StoreInv, LoginInv, LoginType
  <2> QED BY <2>1, <2>2, <2>3, CommandMoves
<1>3. ASSUME NEW cmd \in OneShots, OneShot(cmd) PROVE StoreInv'
  <2>1. /\ UNCHANGED <<account, invites, paired, pending, disk, calm>> /\ conns' = 0
        /\ proc' = [cmd |-> cmd, at |-> "open", pw |-> NoPassword, end |-> "none"]
        /\ call' = NoCall
    BY <1>3 DEF OneShot
  <2>2. ProcType' /\ proc'.at = "open"
    BY <2>1 DEF StoreInv, ProcType
  <2>3. LoginInv'
    BY <2>1, NewCall DEF StoreInv, LoginInv, LoginType
  <2> QED BY <2>1, <2>2, <2>3, CommandMoves
<1>4. ASSUME NEW pw \in Passwords, Prompted(pw) PROVE StoreInv'
  <2>1. UNCHANGED <<loginVars, disk>> /\ proc' = [proc EXCEPT !.at = "open", !.pw = pw]
    BY <1>4 DEF Prompted
  <2>2. ProcType' /\ proc'.at = "open"
    BY <2>1 DEF StoreInv, ProcType
  <2>3. LoginInv'
    BY <2>1, NewCall DEF StoreInv, LoginInv, LoginType, loginVars
  <2> QED BY <2>1, <2>2, <2>3, CommandMoves DEF loginVars
<1> QED BY <1>1, <1>2, <1>3, <1>4 DEF Starts

Quiet == {"none", "open", "prompt", "agents", "proxy", "connect", "up", "release"}
Outcomes == {"refused", "raised", "returned", "left", "unclosed", "interrupted", "killed"}

\* A step that moves the command on, and leaves its calls alone or drops them.
LEMMA CommandGoes ==
  ASSUME StoreInv, UNCHANGED <<account, invites, paired, pending, calm, disk>>,
         (UNCHANGED call /\ UNCHANGED conns) \/ (call' = NoCall /\ conns' \in {0, conns}),
         \/ \E at \in Quiet : Go(at)
         \/ \E at \in {"none", "release"}, end \in Outcomes : proc' = [proc EXCEPT !.at = at, !.end = end]
         \/ At("release") /\ (UNCHANGED proc \/ Exit(proc.end))
  PROVE  StoreInv'
<1>1. LoginInv'
  BY NewCall DEF StoreInv, LoginInv, LoginType
<1>2. ProcType' /\ proc'.at \in Quiet
  <2>1. CASE \E at \in Quiet : Go(at)
    <3>1. PICK at \in Quiet : proc' = [proc EXCEPT !.at = at]
      BY <2>1 DEF Go
    <3>2. at \in {"none", "login", "save", "open", "prompt", "refresh", "agents", "proxy",
                 "connect", "list", "up", "release"} /\ at # "login"
      BY DEF Quiet
    <3> QED BY <3>1, <3>2 DEF StoreInv, ProcType
  <2>2. CASE \E at \in {"none", "release"}, end \in Outcomes :
               proc' = [proc EXCEPT !.at = at, !.end = end]
    <3>1. PICK at \in {"none", "release"}, end \in Outcomes : proc' = [proc EXCEPT !.at = at, !.end = end]
      BY <2>2
    <3>2. end \in {"none", "unknown", "refused", "raised", "returned", "left", "unclosed",
                  "interrupted", "killed"}
      BY DEF Outcomes
    <3> QED BY <3>1, <3>2 DEF Quiet, StoreInv, ProcType
  <2>3. CASE At("release") /\ (UNCHANGED proc \/ Exit(proc.end))
    <3>1. proc.at = "release" /\ (UNCHANGED proc \/ proc' = [proc EXCEPT !.at = "none", !.end = proc.end])
      BY <2>3 DEF At, Exit
    <3>2. CASE UNCHANGED proc
      BY <3>1, <3>2 DEF Quiet, StoreInv, ProcType
    <3>3. CASE proc' = [proc EXCEPT !.at = "none", !.end = proc.end]
      BY <3>3 DEF Quiet, StoreInv, ProcType
    <3> QED BY <3>1, <3>2, <3>3
  <2> QED BY <2>1, <2>2, <2>3
<1> QED BY <1>1, <1>2, CommandMoves DEF Quiet

\* What is written after a login is written for a device that is bound.
LEMMA WritesStore ==
  ASSUME StoreInv, CertWritten \/ RowSaved \/ CertExpires
  PROVE  StoreInv'
<1>1. CASE CertWritten
  <2>1. /\ UNCHANGED loginVars /\ proc.at = "login" /\ call.at = "done"
        /\ disk' = [disk EXCEPT !.cert = "fresh"] /\ proc' = [proc EXCEPT !.at = "save"]
    BY <1>1 DEF CertWritten, LoggedIn, At, Go
  <2>2. ProcType' /\ proc'.at = "save"
    BY <2>1 DEF StoreInv, ProcType
  <2>3. LoginInv' /\ paired /\ account # NoPassword
    BY <2>1, NewCall DEF StoreInv, LogsIn, LoginInv, LoginType, Coordinated, loginVars
  <2> QED BY <2>1, <2>2, <2>3 DEF StoreInv, LogsIn, StoredIsPaired, loginVars
<1>2. CASE RowSaved
  <2>1. /\ UNCHANGED <<account, invites, paired, pending, call, calm>> /\ conns' = 0
        /\ disk' = [disk EXCEPT !.row = TRUE] /\ proc' = [proc EXCEPT !.at = "open"]
        /\ proc.at = "save"
    BY <1>2 DEF RowSaved, At, Go
  <2>2. ProcType' /\ proc'.at = "open"
    BY <2>1 DEF StoreInv, ProcType
  <2>3. paired /\ account # NoPassword /\ call.at = "done"
    BY <2>1 DEF StoreInv, LogsIn, LoginInv, Coordinated
  <2>4. LoginInv'
    BY <2>1, <2>3, OpenAssumption DEF StoreInv, LoginInv, LoginType, CallType, Coordinated, Underway
  <2> QED BY <2>1, <2>2, <2>3, <2>4 DEF StoreInv, LogsIn, StoredIsPaired
<1>3. CASE CertExpires
  <2>1. /\ UNCHANGED <<loginVars, proc>> /\ disk.cert = "fresh"
        /\ disk' = [disk EXCEPT !.cert = "expired"]
    BY <1>3 DEF CertExpires
  <2>2. ProcType' /\ disk'.row = disk.row
    BY <2>1 DEF StoreInv, ProcType
  <2>3. LoginInv'
    BY <2>1, NewCall DEF StoreInv, LoginInv, LoginType, loginVars
  <2> QED BY <2>1, <2>2, <2>3 DEF StoreInv, LogsIn, StoredIsPaired, loginVars
<1> QED BY <1>1, <1>2, <1>3

\* from_network asks for the agents, also after it has refreshed the certificate.
LEMMA OpensStore ==
  ASSUME StoreInv, Open \/ Refreshed
  PROVE  StoreInv'
<1>1. UNCHANGED <<account, invites, paired, pending, conns, calm>>
  BY DEF Open, Refreshed
<1>2. ASSUME Bind PROVE LoginInv' /\ proc' = [proc EXCEPT !.at = "agents"]
  BY <1>1, <1>2, NewCall DEF Bind, Go, Begin, StoreInv, LoginInv, LoginType
<1>3. CASE Open /\ CertValid /\ Bind
  <2>1. ProcType' /\ proc'.at = "agents" /\ UNCHANGED disk
    BY <1>2, <1>3 DEF Open, StoreInv, ProcType
  <2> QED BY <1>1, <1>2, <1>3, <2>1, CommandMoves
<1>4. CASE Open /\ Go("prompt") /\ UNCHANGED <<call, held>>
  BY <1>1, <1>4, CommandGoes DEF Open, Quiet
<1>5. CASE Open /\ proc.pw # NoPassword /\ Go("refresh") /\ Begin(LoginCalls, proc.pw, "none")
  <2>1. ProcType' /\ proc'.at = "refresh" /\ UNCHANGED disk
    BY <1>5 DEF Open, Go, StoreInv, ProcType
  <2>2. proc.pw \in Passwords /\ LoginCalls \in Logins
    BY <1>5 DEF StoreInv, ProcType, Logins
  <2>3. LoginInv'
    BY <1>1, <1>5, <2>2, NewCall DEF Begin, StoreInv, LoginInv, LoginType
  <2>4. call'.at = "dial" /\ call'.todo \in Logins
    BY <1>5, <2>2, CallingType DEF Begin
  <2> QED BY <1>1, <2>1, <2>3, <2>4, StillPaired DEF StoreInv, LogsIn
<1>6. CASE Refreshed
  <2>1. paired /\ account # NoPassword
    BY <1>6 DEF Refreshed, At, StoreInv, LogsIn, LoginInv, Coordinated
  <2>2. disk' = [disk EXCEPT !.cert = "fresh"] /\ Bind
    BY <1>6 DEF Refreshed
  <2>3. ProcType' /\ proc'.at = "agents"
    BY <1>2, <2>2 DEF StoreInv, ProcType
  <2> QED BY <1>1, <1>2, <2>1, <2>2, <2>3 DEF StoreInv, LogsIn, StoredIsPaired
<1> QED BY <1>3, <1>4, <1>5, <1>6 DEF Open

\* Every step of a running command keeps what the store says true.
LEMMA RunsStore ==
  ASSUME StoreInv, Runs
  PROVE  StoreInv'
<1>1. CASE LoginRefused \/ LoginFailed \/ CallRaises \/ OpenRaises \/ ConnectRaises
  BY <1>1, CommandGoes DEF LoginRefused, LoginFailed, CallRaises, OpenRaises, ConnectRaises,
                           Raise, Exit, Outcomes, loginVars
<1>2. CASE AgentChosen \/ ProxyStarted \/ Takes
  BY <1>2, CommandGoes DEF AgentChosen, ProxyStarted, Takes, Quiet, loginVars
<1>3. CASE AgentsShown \/ WorkEnds \/ WorkRaises
  BY <1>3, CommandGoes DEF AgentsShown, WorkEnds, WorkRaises, Exit, Outcomes, loginVars
<1>4. CASE Release
  BY <1>4, CommandGoes DEF Release
<1> QED BY <1>1, <1>2, <1>3, <1>4, WritesStore, OpensStore DEF Runs

\* Every step keeps it: the coordinator, the commands and the user.
LEMMA NextStore == StoreInv /\ [LifeNext]_allVars => StoreInv'
<1> SUFFICES ASSUME StoreInv, [LifeNext]_allVars PROVE StoreInv'
  OBVIOUS
<1>1. CASE Calls
  <2>1. LoginInv' /\ (paired => paired') /\ UNCHANGED <<disk, proc>>
    BY <1>1, RpcSteps DEF Calls, lifeVars, StoreInv
  <2>2. ProcType' /\ StoredIsPaired'
    BY <2>1, StillPaired DEF StoreInv, ProcType
  <2>3. LogsIn'
    BY <1>1, <2>1, RpcSteps DEF Calls, StoreInv, LogsIn, Underway
  <2> QED BY <2>1, <2>2, <2>3 DEF StoreInv
<1>2. CASE Interrupt
  BY <1>2, CommandGoes DEF Interrupt, Exit, Raise, Outcomes
<1>3. CASE Killed
  BY <1>3, CommandGoes DEF Killed, Exit, Outcomes
<1>4. CASE CalmsDown /\ UNCHANGED lifeVars
  <2>1. LoginInv'
    BY <1>4, NewCall DEF CalmsDown
  <2> QED BY <1>4, <2>1 DEF CalmsDown, lifeVars, StoreInv, ProcType, LogsIn, StoredIsPaired
<1>5. CASE UNCHANGED allVars
  BY <1>5 DEF allVars, loginVars, lifeVars, StoreInv, LoginInv, LoginType, CallType, Coordinated,
              ProcType, LogsIn, StoredIsPaired
<1> QED BY <1>1, <1>2, <1>3, <1>4, <1>5, StartsStore, RunsStore, WritesStore DEF LifeNext

\* Whatever is interrupted, killed or lost: what is on disk of the membership is
\* true at the coordinator.
THEOREM OnlyPairedIsStored == LifeSpec => []StoredIsPaired
<1>1. StoreInv => StoredIsPaired
  BY DEF StoreInv
<1> QED BY <1>1, StoreInit, NextStore, PTL DEF LifeSpec

-----------------------------------------------------------------------------
\* What is held: every step keeps the connections with their node.
LEMMA InitHeld == LifeInit => HeldInv
  BY DEF LifeInit, InitLogin, HeldInv, At, NothingHeldAfter

\* The calls dial only while their command has a node.
LEMMA CallsHeld ==
  ASSUME HeldInv, Calls
  PROVE  HeldInv'
  BY DEF Calls, lifeVars, HeldInv, At, NothingHeldAfter

\* A command starts by taking the node, before anything else.
LEMMA StartsHeld ==
  ASSUME HeldInv, ProcType, Starts
  PROVE  HeldInv'
<1>1. ASSUME NEW cmd \in Connects, NEW pw \in Passwords, Connect(cmd, pw) PROVE HeldInv'
  <2>1. held' = {"node"} /\ conns' = 0
    BY <1>1 DEF Connect
  <2>2. proc'.at = "login" \/ (proc'.at = "none" /\ proc'.end = "unknown")
    BY <1>1 DEF Connect
  <2> QED BY <2>1, <2>2 DEF HeldInv, At, NothingHeldAfter
<1>2. CASE Agents
  BY <1>2 DEF Agents, HeldInv, At, NothingHeldAfter
<1>3. ASSUME NEW cmd \in OneShots, OneShot(cmd) PROVE HeldInv'
  BY <1>3 DEF OneShot, HeldInv, At, NothingHeldAfter
<1>4. ASSUME NEW pw \in Passwords, Prompted(pw) PROVE HeldInv'
  <2>1. proc'.at = "open" /\ UNCHANGED <<held, conns>>
    BY <1>4 DEF Prompted, loginVars, ProcType
  <2>2. held = {} /\ conns = 0
    BY <1>4 DEF Prompted, HeldInv, At, NothingHeldAfter
  <2> QED BY <2>1, <2>2 DEF HeldInv, At, NothingHeldAfter
<1> QED BY <1>1, <1>2, <1>3, <1>4 DEF Starts

\* A step that takes nothing away and goes to a place that asks for nothing.
LEMMA KeepsHeld ==
  ASSUME HeldInv, "node" \in held => "node" \in held', UNCHANGED conns,
         \/ proc'.at \in {"proxy", "connect", "up", "save", "release"}
         \/ proc'.at = "agents" /\ "node" \in held'
         \/ proc'.at = "none" /\ proc'.end \in {"refused", "left", "unclosed", "interrupted"}
  PROVE  HeldInv'
  BY DEF HeldInv, At, NothingHeldAfter

\* What a command opens it holds.
LEMMA OpenHeld ==
  ASSUME HeldInv, ProcType, Open \/ Refreshed \/ RowSaved
  PROVE  HeldInv'
<1>1. CASE RowSaved
  BY <1>1 DEF RowSaved, Go, ProcType, HeldInv, At, NothingHeldAfter
<1>2. CASE (Open \/ Refreshed) /\ Bind
  <2>1. proc'.at = "agents" /\ held' = {"node", "dialer"} /\ UNCHANGED conns
    BY <1>2 DEF Open, Refreshed, Bind, Go, ProcType
  <2> QED BY <2>1, KeepsHeld
<1>3. CASE Open /\ Go("prompt") /\ UNCHANGED <<call, held>>
  <2>1. proc'.at = "prompt" /\ UNCHANGED <<held, conns>> /\ held = {} /\ conns = 0
    BY <1>3 DEF Open, Go, ProcType, HeldInv
  <2> QED BY <2>1 DEF HeldInv, At, NothingHeldAfter
<1>4. CASE Open /\ held' = {"node"} /\ Go("refresh")
  <2>1. proc'.at = "refresh" /\ UNCHANGED conns
    BY <1>4 DEF Open, Go, ProcType
  <2> QED BY <1>4, <2>1 DEF HeldInv, At, NothingHeldAfter
<1> QED BY <1>1, <1>2, <1>3, <1>4 DEF Open, Refreshed

\* A running command holds what its place says, also when it fails.
LEMMA RunsHeld ==
  ASSUME HeldInv, ProcType, Runs
  PROVE  HeldInv'
<1>1. CASE LoginRefused \/ LoginFailed \/ CallRaises \/ OpenRaises \/ ConnectRaises
  <2>1. UNCHANGED <<held, conns>> /\ (Raise \/ Exit("refused"))
    BY <1>1 DEF LoginRefused, LoginFailed, CallRaises, OpenRaises, ConnectRaises, loginVars
  <2>2. proc'.at = "release" \/ (proc'.at = "none" /\ proc'.end = "refused")
    BY <2>1 DEF Raise, Exit, ProcType
  <2> QED BY <2>1, <2>2, KeepsHeld
<1>2. CASE CertWritten \/ AgentChosen \/ ProxyStarted \/ Takes
  <2>1. held \subseteq held' /\ UNCHANGED conns
    BY <1>2 DEF CertWritten, AgentChosen, ProxyStarted, Takes, loginVars
  <2>2. proc'.at \in {"save", "proxy", "connect", "up"}
    BY <1>2 DEF CertWritten, AgentChosen, ProxyStarted, Takes, Go, ProcType
  <2> QED BY <2>1, <2>2, KeepsHeld
<1>3. CASE AgentsShown \/ WorkEnds \/ WorkRaises
  <2>1. UNCHANGED <<held, conns>>
    BY <1>3 DEF AgentsShown, WorkEnds, WorkRaises, loginVars
  <2>2. proc'.at = "release" \/ (proc'.at = "none" /\ proc'.end \in {"left", "unclosed"})
    BY <1>3 DEF AgentsShown, WorkEnds, WorkRaises, Exit, ProcType
  <2> QED BY <2>1, <2>2, KeepsHeld
<1>4. CASE Release
  <2>1. proc.at = "release"
    BY <1>4 DEF Release, At
  <2>2. CASE held = {}
    <3>1. Exit(proc.end) /\ UNCHANGED <<held, conns>>
      BY <1>4, <2>2 DEF Release, Owned
    <3>2. proc'.at = "none"
      BY <3>1 DEF Exit, ProcType
    <3> QED BY <2>2, <3>1, <3>2 DEF HeldInv, At, NothingHeldAfter
  <2>3. CASE held # {}
    <3>1. UNCHANGED proc /\ \E taken : /\ held' = held \ {taken}
                                       /\ conns' = IF taken = "node" THEN 0 ELSE conns
      BY <1>4, <2>3 DEF Release, Owned
    <3> QED BY <2>1, <3>1 DEF HeldInv, At, NothingHeldAfter
  <2> QED BY <2>2, <2>3
<1> QED BY <1>1, <1>2, <1>3, <1>4, OpenHeld DEF Runs

\* Every step keeps that: Ctrl-C and a kill included.
LEMMA NextHeld == HeldInv /\ ProcType /\ [LifeNext]_allVars => HeldInv'
<1> SUFFICES ASSUME HeldInv, ProcType, [LifeNext]_allVars PROVE HeldInv'
  OBVIOUS
<1>1. CASE Interrupt
  <2>1. UNCHANGED <<held, conns>> /\ (Raise \/ Exit("interrupted"))
    BY <1>1 DEF Interrupt
  <2>2. proc'.at = "release" \/ (proc'.at = "none" /\ proc'.end = "interrupted")
    BY <2>1 DEF Raise, Exit, ProcType
  <2> QED BY <2>1, <2>2, KeepsHeld
<1>2. CASE Killed
  <2>1. held' = {} /\ conns' = 0 /\ proc'.at = "none"
    BY <1>2 DEF Killed, Exit, ProcType
  <2> QED BY <2>1 DEF HeldInv, At, NothingHeldAfter
<1>3. CASE UNCHANGED <<conns, proc, held>>
  BY <1>3 DEF HeldInv, At, NothingHeldAfter
<1>4. CertExpires \/ (CalmsDown /\ UNCHANGED lifeVars) \/ UNCHANGED allVars => UNCHANGED <<conns, proc, held>>
  BY DEF CertExpires, CalmsDown, allVars, loginVars, lifeVars
<1> QED BY <1>1, <1>2, <1>3, <1>4, CallsHeld, StartsHeld, RunsHeld DEF LifeNext

\* A command that returns, or fails in from_network or connect(), has released
\* all it took, and a call that failed with its connection open has had it closed
\* with the node.  Refused logins, unknown handles and interrupts end otherwise.
THEOREM AllIsReleased == LifeSpec => []NothingHeldAfter
<1>1. LifeInit => StoreInv /\ HeldInv
  BY StoreInit, InitHeld
<1>2. StoreInv /\ HeldInv /\ [LifeNext]_allVars => (StoreInv /\ HeldInv)'
  BY NextStore, NextHeld DEF StoreInv
<1>3. HeldInv => NothingHeldAfter
  BY DEF HeldInv
<1> QED BY <1>1, <1>2, <1>3, PTL DEF LifeSpec

=============================================================================
