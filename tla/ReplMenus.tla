------------------------------ MODULE ReplMenus ------------------------------
(***************************************************************************)
(* The REPL's menus (main.py: tasks, events, workflows, MCPs, models,      *)
(* providers, settings, vault).  Each round of a menu reads a table of the *)
(* server, prints it with numbers, asks for a number and an operation, and *)
(* sends one request built from the row as it was printed.  Several users  *)
(* have the same menu open.  A menu is the set of its operations, an       *)
(* operation the fields its request names; a row has four of them, and the *)
(* values are small.                                                       *)
(***************************************************************************)
EXTENDS Naturals, FiniteSets

CONSTANTS
  Clients,   \* users, each with a REPL of his own
  Rows       \* ids, names or keys of the rows of the table

VARIABLES
  kind,    \* the menu that is followed, "none" until one is opened
  table,   \* external: the server's rows
  menu,    \* per client: where it is, the rows it has printed, its request
  meant    \* ghost: what was last meant for each field of each row

menuVars == <<kind, table, menu, meant>>

-----------------------------------------------------------------------------
(* The menus                                                                *)

\* The switch; two of what the edit form shows (a name, a cron, a prompt, a
\* binding); and one more, with an operation of its own: a secret, a cap, a flag.
Fields == {"enabled", "name", "text", "setting"}
NoRow  == [f \in Fields |-> "none"]

\* sends: the fields the request names, none for a run, a test or a listing.
\* removes: the row goes.  caught: an except clause prints the error.
Op(sends, removes, caught) == [sends |-> sends, removes |-> removes, caught |-> caught]

Toggle   == Op({"enabled"}, FALSE, FALSE)
Set      == Op({"setting"}, FALSE, FALSE)
Form     == Op({"name", "text"}, FALSE, FALSE)   \* asks for each, the printed one by default
Run      == Op({}, FALSE, FALSE)
Delete   == Op(Fields, TRUE, FALSE)
Caught(op) == [op EXCEPT !.caught = TRUE]

Tasks     == [edit |-> Form, run |-> Run, stop |-> Run, history |-> Run,
              delete |-> Delete, toggle |-> Toggle]
Events    == [edit |-> Form, fire |-> Run, rotate |-> Set,
              history |-> Run, toggle |-> Toggle, delete |-> Delete]
Workflows == [run |-> Run, history |-> Run, toggle |-> Toggle,
              concurrency |-> Set, delete |-> Delete]
Mcps      == [toggle |-> Toggle, remove |-> Caught(Delete)]
Models    == [toggle |-> Caught(Toggle), classifier |-> Caught(Set),
              edit |-> Caught(Form), remove |-> Caught(Delete), pin |-> Caught(Run),
              unpin |-> Caught(Run)]
ModelPicker == [pin |-> Caught(Run), unpin |-> Caught(Run)]   \* of the chat, not the row
Providers == [test |-> Run, remove |-> Delete]

\* A row is a key of the configuration.  The forms of dream_mode and auto_update
\* send their switch with the rest, that of a channel the whole map of channels.
Settings  == [name |-> Op({"name"}, FALSE, FALSE), prompt |-> Op({"text"}, FALSE, FALSE),
              dream |-> Op({"enabled", "text"}, FALSE, FALSE),
              update |-> Op({"enabled", "name", "text"}, FALSE, FALSE),
              channels |-> Form]

\* The editor is given the whole note, of two parts, and sends it whole.
Vault     == [open |-> Run, edit |-> Form, delete |-> Delete]

Menus == [tasks |-> Tasks, events |-> Events, workflows |-> Workflows, mcps |-> Mcps,
          models |-> Models, model |-> ModelPicker, providers |-> Providers,
          settings |-> Settings, vault |-> Vault, none |-> [o \in {} |-> Run]]
Operations == {Menus[kind][o] : o \in DOMAIN Menus[kind]}

\* The forms that ask for several fields, and what they send along with what
\* their users have changed.
Forms  == {op \in Operations : ~op.removes /\ Cardinality(op.sends) > 1}
Resent == UNION {op.sends : op \in Forms}

-----------------------------------------------------------------------------
(* A round: read the table, ask, send one request                           *)

Closed == [at |-> "closed", shown |-> [r \in Rows |-> NoRow], row |-> CHOOSE r \in Rows : TRUE,
           caught |-> FALSE, body |-> NoRow, want |-> NoRow]

NewRow(c) == [enabled |-> "on", name |-> c, text |-> c, setting |-> "first"]

MenuInit ==
  /\ kind = "none" /\ table \in [Rows -> {NoRow, NewRow("first")}]
  /\ menu = [c \in Clients |-> Closed] /\ meant = table

At(c, place) == menu[c].at = place
Goto(c, place) == menu' = [menu EXCEPT ![c] = [Closed EXCEPT !.at = place]]

\* The other menus have tables of their own.
Open(c) ==
  /\ At(c, "closed") /\ Goto(c, "list")
  /\ kind' \in IF kind = "none" THEN DOMAIN Menus \ {"none"} ELSE {kind}
  /\ UNCHANGED <<table, meant>>

Listed(c) ==
  /\ At(c, "list")
  /\ menu' = [menu EXCEPT ![c].at = "asking", ![c].shown = table]
  /\ UNCHANGED <<kind, table, meant>>

\* The list is read outside of any try block: the error leaves the menu.
ListFails(c) ==
  /\ At(c, "list") /\ Goto(c, "raised")
  /\ UNCHANGED <<kind, table, meant>>

Quit(c) ==
  /\ At(c, "asking") /\ menu' = [menu EXCEPT ![c] = Closed]
  /\ UNCHANGED <<kind, table, meant>>

\* No such number, a value out of range, a confirmation that is not given.
Declined(c) ==
  /\ At(c, "asking") /\ Goto(c, "list")
  /\ UNCHANGED <<kind, table, meant>>

Other(flag) == IF flag = "on" THEN "off" ELSE "on"

\* What the user changes in a row he sees: a switch the other way, a value of his
\* own, or the row gone.
Wanted(c, seen, op, changed) ==
  [f \in Fields |-> IF f \notin changed THEN "kept"
                    ELSE IF op.removes THEN "none"
                    ELSE IF f = "enabled" THEN Other(seen.enabled) ELSE c]

\* Mutant: the request names the whole row, as it was printed.
WholeRow(op, changed, want, seen) ==
  [f \in Fields |-> IF f \in changed THEN want[f] ELSE seen[f]]

\* What the user leaves alone in a form is sent as it was printed.
Body(op, changed, want, seen) ==
  [f \in Fields |-> IF f \in op.sends \ changed THEN seen[f] ELSE want[f]]

\* The number is that of the printed list; in a form the user may leave anything
\* alone, elsewhere there is nothing to leave.
Choose(c, r, op, changed) ==
  /\ At(c, "asking") /\ menu[c].shown[r] # NoRow
  /\ changed = op.sends \/ op \in Forms
  /\ LET seen == menu[c].shown[r]
         want == Wanted(c, seen, op, changed)
     IN  menu' = [menu EXCEPT ![c] =
                    [Closed EXCEPT !.at = "request", !.row = r, !.caught = op.caught,
                                   !.want = want, !.body = Body(op, changed, want, seen)]]
  /\ UNCHANGED <<kind, table, meant>>

Merged(row, body) == [f \in Fields |-> IF body[f] = "kept" THEN row[f] ELSE body[f]]

\* The server merges the request into the row that is there now: external.
Apply(c) ==
  LET r == menu[c].row
  IN  /\ table[r] # NoRow
      /\ table' = [table EXCEPT ![r] = Merged(@, menu[c].body)]
      /\ meant' = [meant EXCEPT ![r] = Merged(@, menu[c].want)]

Applied(c) == At(c, "request") /\ Apply(c) /\ Goto(c, "list") /\ UNCHANGED kind

\* A row that is gone, or a request the server does not like: it is printed.
Refused(c) ==
  /\ At(c, "request") /\ Goto(c, "list")
  /\ UNCHANGED <<kind, table, meant>>

\* The connection drops before or after the server has seen the request.
RequestLost(c) ==
  /\ At(c, "request")
  /\ Goto(c, IF menu[c].caught THEN "list" ELSE "raised")
  /\ UNCHANGED kind
  /\ Apply(c) \/ UNCHANGED <<table, meant>>

\* The add forms post a new row, switched on.
Add(c, r) ==
  /\ At(c, "asking") /\ table[r] = NoRow
  /\ kind \notin {"workflows", "model", "settings"}
  /\ table' = [table EXCEPT ![r] = NewRow(c)] /\ meant' = [meant EXCEPT ![r] = NewRow(c)]
  /\ Goto(c, "list") /\ UNCHANGED kind

MenuStep(c) ==
  \/ Listed(c) \/ ListFails(c) \/ Quit(c) \/ Declined(c)
  \/ Applied(c) \/ Refused(c) \/ RequestLost(c)
  \/ \E r \in Rows :
       \/ Add(c, r)
       \/ \E op \in Operations : \E changed \in SUBSET op.sends : Choose(c, r, op, changed)
-----------------------------------------------------------------------------
\* However old the list a user acts on, it brings back nothing but what a form of
\* that menu asks for together: a switch, a cap, a secret or a flag that has an
\* operation of its own is what was meant by the last user who set it, whatever
\* rows, forms and confirmations the others had before them meanwhile.
WhatWasMeantStands == \A r \in Rows : \A f \in Fields \ Resent : table[r][f] = meant[r][f]

=============================================================================
