---------------------------- MODULE ReplSessions ----------------------------
(***************************************************************************)
(* _interactive_loop (main.py): the sessions the REPL lists, the active    *)
(* one, their titles, and the menus it opens, while other clients of the   *)
(* account rename chats and use the same menus.  What a turn does is in    *)
(* ChatLoop and SharedTerminal; here the messages make and name chats: one *)
(* after the other on the stream, or, of a shared terminal, each in a task *)
(* of its own while the user types on (SharedRepl.submit).                 *)
(***************************************************************************)
EXTENDS ReplMenus, Sequences, SequencesExt

CONSTANTS
  Me,          \* the client whose loop this is
  Stored,      \* bound: chats the server has when the loop begins
  MaxNew,      \* bound: chats begun by this loop
  MaxCommands  \* bound: commands typed, choices in menus, the others' among them

ASSUME SessionAssumption ==
  Me \in Clients /\ {Stored, MaxCommands} \subseteq Nat /\ MaxNew \in Nat \ {0}

VARIABLES
  loop,     \* where the loop is
  sessions, \* the keys of the dict, oldest first
  label,    \* its values
  active,
  shared,   \* shared_repl is not None
  fresh,    \* ids made so far
  tasks,    \* shared_repl.tasks: what is sent, by the number of its command
  chats,    \* external: the server's chats and their titles
  named,    \* ghost: chats this user has named and not removed since
  taken,    \* ghost: of these, where the server took the name and nothing was naming it
  removed,  \* ghost: chats the server removed for this user, nothing being sent to them
  typed

replVars == <<loop, sessions, label, active, shared, fresh, tasks, chats, named, taken,
              removed, typed>>
vars == <<menuVars, replVars>>

Default == 0                           \* "cli-default"
Ids == 0..(Stored + MaxNew)

\* A placeholder, a slash command, what a message made, what a user chose.
Titles == {"automatic", "command", "message", "chosen"}

Commands == 1..MaxCommands

\* ensure_session asks for the chat ("get") and names one that is not there
\* ("patch"); send_turn follows ("post").  title: what its text makes.
NoTask == [at |-> "none", chat |-> Default, title |-> "message"]
Task(s, title) == [at |-> "get", chat |-> s, title |-> title]

UnderWay(s) == \E n \in Commands : tasks[n].at # "none" /\ tasks[n].chat = s
Naming(s)   == \E n \in Commands : tasks[n].at = "patch" /\ tasks[n].chat = s

\* _is_automatic_session_title(sessions.get(active, ""), active)
Automatic(s) == s \notin Range(sessions) \/ label[s] \in {"automatic", "command"}

-----------------------------------------------------------------------------
(* Beginning                                                                *)

\* A title with the framework and model appended is not automatic any more.
Listing(title) == IF title \in {"automatic", "command"} THEN {title, "chosen"} ELSE {title}

ReplInit ==
  /\ MenuInit
  /\ loop = "hydrate" /\ sessions = <<Default>> /\ label = [s \in Ids |-> "chosen"]
  /\ active = Default /\ shared \in BOOLEAN /\ fresh = Stored
  /\ chats \in {f \in [Ids -> Titles \cup {"none"}] :
                  \A s \in Ids : f[s] = "none" <=> s \notin 1..Stored}
  /\ tasks = [n \in Commands |-> NoTask]
  /\ named = {} /\ taken = {} /\ removed = {} /\ typed = 0

\* The most recent chat of the server becomes the active one; any error of the
\* listing is ignored.
Hydrate ==
  /\ loop = "hydrate"
  /\ \/ UNCHANGED <<sessions, label, active>>
     \/ /\ sessions' = <<Default>> \o [i \in 1..Stored |-> i]
        /\ label' \in {l \in [Ids -> Titles] :
                         \A s \in Ids : l[s] \in IF s \in 1..Stored THEN Listing(chats[s])
                                                 ELSE {"chosen"}}
        /\ active' = IF Stored > 0 THEN 1 ELSE Default
  /\ loop' = "attach"
  /\ UNCHANGED <<shared, fresh, tasks, chats, named, taken, removed, typed, menuVars>>

\* A shared terminal never shows the default chat to begin with.
Attach ==
  /\ loop = "attach" /\ loop' = "prompt"
  /\ IF shared /\ active = Default
     THEN /\ fresh' = fresh + 1 /\ active' = fresh' /\ sessions' = <<fresh'>>
          /\ label' = [label EXCEPT ![fresh'] = "automatic"]
     ELSE UNCHANGED <<sessions, label, active, fresh>>
  /\ UNCHANGED <<shared, tasks, chats, named, taken, removed, typed, menuVars>>

-----------------------------------------------------------------------------
(* Commands                                                                 *)

Types ==
  /\ loop = "prompt" /\ typed < MaxCommands
  /\ typed' = typed + 1

\* /quit, the end of the input, or an error that nothing catches.  The observer
\* of a shared chat is closed and the tasks are cancelled in every case; what the
\* server was asked for by then it may still do (Dropped).
Leave ==
  /\ loop \in {"attach", "prompt"} \/ At(Me, "raised")
  /\ loop' = "left" /\ shared' = FALSE
  /\ tasks' = [n \in Commands |-> IF tasks[n].at = "get" THEN NoTask ELSE tasks[n]]
  /\ UNCHANGED <<sessions, label, active, fresh, chats, named, taken, removed, typed, menuVars>>

Switch(s) ==
  /\ Types /\ s \in Range(sessions) /\ active' = s
  /\ UNCHANGED <<loop, sessions, label, shared, fresh, tasks, chats, named, taken, removed,
                 menuVars>>

New ==
  /\ Types /\ fresh < Stored + MaxNew
  /\ fresh' = fresh + 1 /\ active' = fresh'
  /\ sessions' = Append(sessions, fresh') /\ label' = [label EXCEPT ![fresh'] = "automatic"]
  /\ UNCHANGED <<loop, shared, tasks, chats, named, taken, removed, menuVars>>

\* A PATCH of the title: the server may refuse it, or not be reached.
Patch(s, title) == chats' \in {chats, [chats EXCEPT ![s] = title]}

\* Mutant: the title is kept only if the server has taken it.
RenamedThere(s, title) == IF chats'[s] = title THEN title ELSE label[s]

Renamed(s, title) == title

\* The label is set first, whatever the server says to it.
Rename(s, title) ==
  /\ Types /\ s \in Range(sessions)
  /\ Patch(s, title) /\ label' = [label EXCEPT ![s] = Renamed(s, title)]
  /\ named' = IF title = "chosen" THEN named \cup {s} ELSE named \ {s}
  /\ taken' = IF title = "chosen" /\ chats'[s] = title /\ ~Naming(s) THEN taken \cup {s}
              ELSE taken \ {s}
  /\ UNCHANGED <<loop, sessions, active, shared, fresh, tasks, removed, menuVars>>

\* Mutant: the active chat stays although it is gone.
StaysActive(s, rest) == active

ActiveWithout(s, rest) ==
  IF active # s THEN active ELSE IF rest = <<>> THEN Default ELSE Head(rest)

\* After the typed "yes".  It is forgotten here even if the server keeps it.
DeleteChat(s) ==
  /\ Types
  /\ \E i \in DOMAIN sessions : sessions[i] = s /\ sessions' = RemoveAt(sessions, i)
  /\ active' = ActiveWithout(s, sessions')
  /\ named' = named \ {s} /\ taken' = taken \ {s}
  /\ \/ /\ chats' = [chats EXCEPT ![s] = "none"]
        /\ removed' = IF UnderWay(s) THEN removed ELSE removed \cup {s}
     \/ UNCHANGED <<chats, removed>>
  /\ UNCHANGED <<loop, label, shared, fresh, tasks, menuVars>>

\* A message whose text gives a title names an automatic chat first; a failure
\* of that is ignored.
Message ==
  /\ Types /\ loop' = "send"
  /\ \/ /\ Automatic(active) /\ Patch(active, "message")
        /\ label' = [label EXCEPT ![active] = "message"]
        /\ sessions' = IF active \in Range(sessions) THEN sessions ELSE Append(sessions, active)
     \/ UNCHANGED <<sessions, label, chats>>
  /\ UNCHANGED <<active, shared, fresh, tasks, named, taken, removed, menuVars>>

\* /file: uploaded files go with a message of their own, which names no chat
\* here; if no upload succeeds, nothing is sent.
Files ==
  /\ Types /\ loop' \in {"send", "prompt"}
  /\ UNCHANGED <<sessions, label, active, shared, fresh, tasks, chats, named, taken, removed,
                 menuVars>>

\* The server makes the chat if it has none.
Posted(s) == chats' = [chats EXCEPT ![s] = IF @ = "none" THEN "automatic" ELSE @]

\* On the stream the loop waits for the turn.
Send ==
  /\ loop = "send" /\ ~shared /\ loop' = "prompt" /\ Posted(active)
  /\ UNCHANGED <<sessions, label, active, shared, fresh, tasks, named, taken, removed, typed,
                 menuVars>>

\* A shared terminal goes on with the next command.
Submit ==
  /\ loop = "send" /\ shared /\ loop' = "prompt"
  /\ tasks' = [tasks EXCEPT ![typed] = Task(active, "message")]
  /\ UNCHANGED <<sessions, label, active, shared, fresh, chats, named, taken, removed, typed,
                 menuVars>>

\* /help, /context, /usage, /compact, /status, /queue, and the pins of /model, of a
\* shared terminal: the server runs them, and their text goes the same way.
Command ==
  /\ Types /\ shared
  /\ tasks' = [tasks EXCEPT ![typed'] = Task(active, "command")]
  /\ UNCHANGED <<loop, sessions, label, active, shared, fresh, chats, named, taken, removed,
                 menuVars>>

-----------------------------------------------------------------------------
(* The tasks of a shared terminal.  A question of a menu stops them all:    *)
(* Prompt.ask holds the thread.                                             *)

Running(n, place) ==
  /\ loop # "left" /\ ~At(Me, "asking") /\ tasks[n].at = place
  /\ UNCHANGED <<loop, sessions, label, active, shared, fresh, named, taken, removed, typed,
                 menuVars>>

Goes(n, place) == tasks' = [tasks EXCEPT ![n].at = place]

\* The chat is there, or it is not (404).
Asked(n) ==
  /\ Running(n, "get") /\ UNCHANGED chats
  /\ Goes(n, IF chats[tasks[n].chat] = "none" THEN "patch" ELSE "post")

\* The PATCH that makes the chat names one that has been made meanwhile.
Titled(n) == chats' = [chats EXCEPT ![tasks[n].chat] = tasks[n].title]

Named(n)  == Running(n, "patch") /\ Titled(n) /\ Goes(n, "post")

Sent(n) ==
  /\ Running(n, "post") /\ Posted(tasks[n].chat) /\ tasks' = [tasks EXCEPT ![n] = NoTask]

\* A request fails, or its task is cancelled, before or after the server has seen it.
Dropped(n) ==
  /\ tasks[n].at # "none" /\ ~At(Me, "asking")
  /\ \/ UNCHANGED chats
     \/ tasks[n].at = "patch" /\ Titled(n)
     \/ tasks[n].at = "post" /\ Posted(tasks[n].chat)
  /\ tasks' = [tasks EXCEPT ![n] = NoTask]
  /\ UNCHANGED <<loop, sessions, label, active, shared, fresh, named, taken, removed, typed,
                 menuVars>>

-----------------------------------------------------------------------------
(* The menus, and the other clients of the account                          *)

\* A menu runs in place of the loop; it is opened when the bound leaves it a choice.
OpenMenu ==
  /\ Types /\ typed' < MaxCommands /\ Open(Me) /\ loop' = "menu"
  /\ UNCHANGED <<sessions, label, active, shared, fresh, tasks, chats, named, taken, removed>>

\* A choice in a menu counts as a command; opening it does for Me.
Counted(c) ==
  IF menu[c].at = "asking" /\ menu'[c].at # "closed"
  THEN typed < MaxCommands /\ typed' = typed + 1 ELSE UNCHANGED typed

InMenu ==
  /\ loop = "menu" /\ MenuStep(Me) /\ Counted(Me)
  /\ loop' = IF menu'[Me].at = "closed" THEN "prompt" ELSE "menu"
  /\ UNCHANGED <<sessions, label, active, shared, fresh, tasks, chats, named, taken, removed>>

\* While this loop is in none, what they do is a table to begin with.
OthersMenu(c) ==
  /\ loop = "menu"
  /\ (MenuStep(c) /\ Counted(c)) \/ (typed < MaxCommands /\ Open(c) /\ UNCHANGED typed)
  /\ UNCHANGED <<loop, sessions, label, active, shared, fresh, tasks, chats, named, taken,
                 removed>>

OthersRename(s) ==
  /\ chats[s] \notin {"none", "chosen"} /\ chats' = [chats EXCEPT ![s] = "chosen"]
  /\ UNCHANGED <<loop, sessions, label, active, shared, fresh, tasks, named, taken, removed,
                 typed, menuVars>>

ReplNext ==
  \/ Hydrate \/ Attach \/ Leave \/ New \/ Message \/ Files \/ Send \/ Submit \/ Command
  \/ OpenMenu \/ InMenu
  \/ \E s \in Ids : Switch(s) \/ DeleteChat(s) \/ OthersRename(s)
                    \/ \E title \in {"automatic", "chosen"} : Rename(s, title)
  \/ \E n \in Commands : Asked(n) \/ Named(n) \/ Sent(n) \/ Dropped(n)
  \/ \E c \in Clients \ {Me} : OthersMenu(c)

ReplSpec == ReplInit /\ [][ReplNext]_vars
-----------------------------------------------------------------------------
\* The name a user gave a chat stands against what is sent.  Here it is never
\* replaced by one made from a message, whatever the server said to it.  At the
\* server it is replaced only by the request that names a missing chat, of a task
\* that found it missing: never once the server has taken the name with no such
\* request under way, and so never on the stream.
ChosenTitleStands ==
  [][\A s \in named \cap named' :
       /\ label'[s] = "chosen"
       /\ chats'[s] # chats[s] /\ chats'[s] \in {"message", "command"}
          => Naming(s) /\ s \notin taken]_vars

\* A chat the server has removed for the user, when nothing was being sent to it,
\* is not made again by what he sends next, on the stream or by the tasks of a
\* shared terminal, unless it is the default one.
RemovedStaysRemoved == \A s \in removed \ {Default} : chats[s] = "none"

=============================================================================
