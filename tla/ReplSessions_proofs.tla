------------------------- MODULE ReplSessions_proofs -------------------------
(***************************************************************************)
(* Proofs about the interactive loop and its menus, for any clients, rows  *)
(* and chats, and any bounds on the commands.                              *)
(***************************************************************************)
EXTENDS ReplSessions, SequenceTheorems, TLAPS

Values == {"none", "kept", "on", "off", "first"} \cup Clients
Table  == [Rows -> [Fields -> Values]]
Flags  == {FALSE} \cup UNION {{Menus[k][o].caught : o \in DOMAIN Menus[k]} : k \in DOMAIN Menus}

Round ==
  [at : {"closed", "list", "asking", "request", "raised"}, shown : Table,
   row : Rows \cup {Closed.row}, caught : Flags,
   body : [Fields -> Values], want : [Fields -> Values]]

MenuType ==
  kind \in DOMAIN Menus /\ table \in Table /\ meant \in Table /\ menu \in [Clients -> Round]

\* What no form of the menu sends along goes as its user wants it.
AsWanted ==
  \A c \in Clients :
    menu[c].at = "request" => \A f \in Fields \ Resent : menu[c].body[f] = menu[c].want[f]

MenuInv == MenuType /\ AsWanted /\ WhatWasMeantStands

TaskType ==
  [at : {"none", "get", "patch", "post"}, chat : Ids, title : {"message", "command"}]

ReplType ==
  /\ loop \in {"hydrate", "attach", "prompt", "send", "menu", "left"}
  /\ sessions \in Seq(Ids) /\ label \in [Ids -> Titles] /\ active \in Ids
  /\ shared \in BOOLEAN /\ fresh \in Stored..(Stored + MaxNew)
  /\ tasks \in [Commands -> TaskType] /\ chats \in [Ids -> Titles \cup {"none"}]
  /\ named \in SUBSET Ids /\ taken \in SUBSET Ids /\ removed \in SUBSET Ids
  /\ typed \in Nat /\ typed <= MaxCommands /\ (loop = "send" => typed > 0)

\* The keys of a dict are distinct, and an id is used when it has been made.
Keys ==
  /\ \A i, j \in DOMAIN sessions : sessions[i] = sessions[j] => i = j
  /\ \A i \in DOMAIN sessions : sessions[i] <= fresh
  /\ active <= fresh
  /\ loop \in {"hydrate", "attach"} => fresh = Stored /\ named = {} /\ taken = {} /\ removed = {}

\* A removed chat is listed no more, not active and not sent to, and no new one has
\* its id.
Gone ==
  /\ \A s \in removed : s <= fresh
  /\ \A i \in DOMAIN sessions : sessions[i] \notin removed \ {Default}
  /\ active \notin removed \ {Default}
  /\ \A n \in Commands : tasks[n].at # "none" => tasks[n].chat \notin removed \ {Default}
  /\ RemovedStaysRemoved

\* A chat the user has named is listed under its name.
Labelled == \A s \in named : label[s] = "chosen" /\ \E i \in DOMAIN sessions : sessions[i] = s

\* A name the server has taken is there, and no task is about to replace it.
Taken ==
  \A s \in taken :
    /\ s \in named /\ chats[s] = "chosen"
    /\ \A n \in Commands : tasks[n].chat = s => tasks[n].at # "patch"

LoopInv == ReplType /\ Keys /\ Gone /\ Labelled /\ Taken

-----------------------------------------------------------------------------
(* The menus                                                                *)

\* What the menus put into a row, or a request, is a value of a row.
LEMMA RowsType ==
  /\ NoRow \in [Fields -> Values] /\ NewRow("first") \in [Fields -> Values]
  /\ \A c \in Clients : NewRow(c) \in [Fields -> Values]
  /\ \A row, body \in [Fields -> Values] : Merged(row, body) \in [Fields -> Values]
  /\ \A c \in Clients : \A seen, op, changed :
       Wanted(c, seen, op, changed) \in [Fields -> Values]
  /\ \A want, seen \in [Fields -> Values] : \A op, changed :
       Body(op, changed, want, seen) \in [Fields -> Values]
<1>1. NoRow \in [Fields -> Values]
  BY DEF NoRow, Values
<1>2. ASSUME NEW v \in Values PROVE NewRow(v) \in [Fields -> Values]
  BY DEF Fields, Values, NewRow
<1>3. "first" \in Values /\ \A c \in Clients : c \in Values
  BY DEF Values
<1>4. ASSUME NEW row \in [Fields -> Values], NEW body \in [Fields -> Values]
      PROVE  Merged(row, body) \in [Fields -> Values]
  BY DEF Merged
<1>5. ASSUME NEW c \in Clients, NEW seen, NEW op, NEW changed
      PROVE  Wanted(c, seen, op, changed) \in [Fields -> Values]
  BY DEF Wanted, Other, Values
<1>6. ASSUME NEW want \in [Fields -> Values], NEW seen \in [Fields -> Values],
             NEW op, NEW changed
      PROVE  Body(op, changed, want, seen) \in [Fields -> Values]
  BY DEF Body
<1> QED BY <1>1, <1>2, <1>3, <1>4, <1>5, <1>6

\* The rows printed for nobody, and a menu that is closed, are well typed.
LEMMA ClosedType ==
  Closed \in [at : {"closed"}, shown : Table, row : {Closed.row}, caught : {FALSE},
              body : [Fields -> Values], want : [Fields -> Values]]
BY RowsType DEF Closed, Table

\* What a menu sends along depends on which it is: nothing before one is opened.
LEMMA SentAlong ==
  /\ kind' = kind => Resent' = Resent
  /\ kind = "none" => Resent = {}
<1>1. Menus' = Menus
  BY DEF Menus, Tasks, Events, Workflows, Mcps, Models, ModelPicker, Providers, Settings,
         Vault, Form, Run, Toggle, Set, Delete, Caught, Op, Fields
<1>2. ASSUME kind' = kind PROVE Resent' = Resent
  BY <1>1, <1>2 DEF Resent, Forms, Operations
<1>3. ASSUME kind = "none" PROVE Resent = {}
  <2>1. DOMAIN Menus["none"] = {}
    BY DEF Menus
  <2>2. Operations = {}
    BY <1>3, <2>1 DEF Operations
  <2> QED BY <2>2 DEF Resent, Forms
<1> QED BY <1>2, <1>3

\* The table is what was meant for it when the loop begins.
LEMMA InitMenu == MenuInit => MenuInv
<1> SUFFICES ASSUME MenuInit PROVE MenuInv
  OBVIOUS
<1>1. table \in Table
  BY RowsType DEF MenuInit, Table
<1>2. Closed.at = "closed"
  BY DEF Closed
<1>3. kind \in DOMAIN Menus
  BY DEF MenuInit, Menus
<1>4. menu \in [Clients -> Round] /\ \A c \in Clients : menu[c].at # "request"
  BY <1>2, ClosedType DEF MenuInit, Round, Flags
<1> QED BY <1>1, <1>3, <1>4 DEF MenuInit, MenuInv, MenuType, AsWanted, WhatWasMeantStands

\* Going to a place forgets the request.
LEMMA GotoMenu ==
  ASSUME MenuInv, NEW c \in Clients, NEW place \in {"closed", "list", "raised"},
         Goto(c, place), kind' = kind
  PROVE  menu' \in [Clients -> Round] /\ AsWanted'
<1> DEFINE new == [Closed EXCEPT !.at = place]
<1>1. new \in [at : {"closed", "list", "raised"}, shown : Table, row : {Closed.row},
               caught : {FALSE}, body : [Fields -> Values], want : [Fields -> Values]]
  BY ClosedType
<1>2. menu' = [menu EXCEPT ![c] = new]
  BY DEF Goto
<1>3. new \in Round /\ new.at # "request"
  BY <1>1 DEF Round, Flags
<1> HIDE DEF new
<1>4. menu' \in [Clients -> Round]
  BY <1>2, <1>3 DEF MenuInv, MenuType
<1>5. \A d \in Clients : menu'[d].at = "request" => menu'[d] = menu[d]
  BY <1>2, <1>3 DEF MenuInv, MenuType
<1> QED BY <1>4, <1>5, SentAlong DEF MenuInv, AsWanted

\* The request changes what no form sends along as its user meant.
LEMMA ApplyMenu ==
  ASSUME MenuInv, NEW c \in Clients, At(c, "request"), Apply(c), kind' = kind
  PROVE  table' \in Table /\ meant' \in Table /\ WhatWasMeantStands'
<1> DEFINE r == menu[c].row
           body == menu[c].body
           want == menu[c].want
<1>1. body \in [Fields -> Values] /\ want \in [Fields -> Values]
  BY DEF MenuInv, MenuType, Round
<1>2. \A f \in Fields \ Resent : body[f] = want[f]
  BY DEF MenuInv, AsWanted, At
<1>3. table' = [table EXCEPT ![r] = Merged(table[r], body)]
  BY DEF Apply
<1>4. meant' = [meant EXCEPT ![r] = Merged(meant[r], want)]
  BY DEF Apply
<1> HIDE DEF r, body, want
<1>5. table' \in Table /\ meant' \in Table
  BY <1>1, <1>3, <1>4, RowsType DEF MenuInv, MenuType, Table
<1>6. ASSUME NEW q \in Rows, NEW f \in Fields \ Resent PROVE table'[q][f] = meant'[q][f]
  <2>1. table[q][f] = meant[q][f]
    BY DEF MenuInv, WhatWasMeantStands
  <2>2. CASE q # r
    BY <1>3, <1>4, <2>1, <2>2 DEF MenuInv, MenuType, Table
  <2>3. CASE q = r
    <3>1. table'[q] = Merged(table[q], body) /\ meant'[q] = Merged(meant[q], want)
      BY <1>3, <1>4, <2>3 DEF MenuInv, MenuType, Table
    <3>2. Merged(table[q], body)[f] = Merged(meant[q], want)[f]
      BY <1>2, <2>1 DEF Merged
    <3> QED BY <3>1, <3>2
  <2> QED BY <2>2, <2>3
<1> QED BY <1>5, <1>6, SentAlong DEF WhatWasMeantStands

\* A choice leaves nothing to a form that does not send it along.
LEMMA ChooseMenu ==
  ASSUME MenuInv, NEW c \in Clients, NEW r \in Rows, NEW op \in Operations, NEW changed,
         Choose(c, r, op, changed)
  PROVE  MenuInv'
<1> DEFINE seen == menu[c].shown[r]
           want == Wanted(c, seen, op, changed)
           body == Body(op, changed, want, seen)
           new  == [Closed EXCEPT !.at = "request", !.row = r, !.caught = op.caught,
                                  !.want = want, !.body = body]
<1>1. menu' = [menu EXCEPT ![c] = new] /\ UNCHANGED <<kind, table, meant>>
  BY DEF Choose
<1>2. changed = op.sends \/ op \in Forms
  BY DEF Choose
<1>3. seen \in [Fields -> Values]
  BY DEF MenuInv, MenuType, Round, Table
<1>4. want \in [Fields -> Values] /\ body \in [Fields -> Values]
  BY <1>3, RowsType
<1>5. \A f \in Fields \ Resent : body[f] = want[f]
  <2> SUFFICES ASSUME NEW f \in Fields \ Resent PROVE f \notin op.sends \ changed
    BY DEF Body
  <2>1. CASE changed = op.sends
    BY <2>1
  <2>2. CASE op \in Forms
    BY <2>2 DEF Resent
  <2> QED BY <1>2, <2>1, <2>2
<1>6. op.caught \in Flags
  <2>1. PICK o \in DOMAIN Menus[kind] : op = Menus[kind][o]
    BY DEF Operations
  <2>2. kind \in DOMAIN Menus
    BY DEF MenuInv, MenuType
  <2>3. op.caught \in {Menus[kind][q].caught : q \in DOMAIN Menus[kind]}
    BY <2>1
  <2> QED BY <2>2, <2>3 DEF Flags
<1> HIDE DEF want, body
<1>7. new \in Round /\ new.body = body /\ new.want = want
  BY <1>4, <1>6, ClosedType DEF Round
<1> HIDE DEF new
<1>8. menu' \in [Clients -> Round]
  BY <1>1, <1>7 DEF MenuInv, MenuType
<1>9. AsWanted'
  <2> SUFFICES ASSUME NEW d \in Clients, menu'[d].at = "request", NEW f \in Fields \ Resent
               PROVE  menu'[d].body[f] = menu'[d].want[f]
    BY <1>1, SentAlong DEF AsWanted
  <2>1. CASE d = c
    BY <1>1, <1>5, <1>7, <2>1 DEF MenuInv, MenuType
  <2>2. CASE d # c
    BY <1>1, <2>2 DEF MenuInv, MenuType, AsWanted
  <2> QED BY <2>1, <2>2
<1>10. WhatWasMeantStands'
  BY <1>1, SentAlong DEF MenuInv, WhatWasMeantStands
<1>11. MenuType'
  <2>1. Menus' = Menus /\ Table' = Table /\ Round' = Round
    BY DEF Table, Round
  <2> QED BY <1>1, <1>8, <2>1 DEF MenuInv, MenuType
<1> QED BY <1>9, <1>10, <1>11 DEF MenuInv

\* No step of a menu, or of its opening, changes what a request stands for.
LEMMA StepMenu ==
  ASSUME MenuInv, NEW c \in Clients, MenuStep(c) \/ Open(c)
  PROVE  MenuInv'
<1> USE DEF MenuInv
<1>1. CASE ListFails(c) \/ Declined(c) \/ Refused(c)
  <2>1. Goto(c, "list") \/ Goto(c, "raised")
    BY <1>1 DEF ListFails, Declined, Refused
  <2>2. kind' = kind /\ table' = table /\ meant' = meant
    BY <1>1 DEF ListFails, Declined, Refused
  <2>3. menu' \in [Clients -> Round] /\ AsWanted'
    BY <2>1, <2>2, GotoMenu
  <2>4. WhatWasMeantStands'
    BY <2>2, SentAlong DEF WhatWasMeantStands
  <2> QED BY <2>2, <2>3, <2>4 DEF MenuType
<1>2. CASE Open(c)
  <2>1. menu' = [menu EXCEPT ![c] = [Closed EXCEPT !.at = "list"]]
        /\ UNCHANGED <<table, meant>> /\ kind' \in DOMAIN Menus
    BY <1>2 DEF Open, Goto, MenuType
  <2>2. kind' = kind \/ kind = "none"
    BY <1>2 DEF Open
  <2>3. Fields \ Resent' \subseteq Fields \ Resent
    BY <2>2, SentAlong
  <2> DEFINE new == [Closed EXCEPT !.at = "list"]
  <2>4. new \in Round /\ new.at # "request"
    BY ClosedType DEF Round, Flags
  <2> HIDE DEF new
  <2>5. menu' \in [Clients -> Round]
        /\ \A d \in Clients : menu'[d].at = "request" => menu'[d] = menu[d]
    BY <2>1, <2>4 DEF MenuType, new
  <2>6. AsWanted' /\ WhatWasMeantStands'
    BY <2>1, <2>3, <2>5 DEF AsWanted, WhatWasMeantStands
  <2> QED BY <2>1, <2>5, <2>6 DEF MenuType
<1>3. CASE Listed(c) \/ Quit(c)
  <2> DEFINE new == IF Listed(c) THEN [menu[c] EXCEPT !.at = "asking", !.shown = table]
                    ELSE Closed
  <2>1. menu' = [menu EXCEPT ![c] = new] /\ UNCHANGED <<kind, table, meant>>
    BY <1>3 DEF Listed, Quit
  <2>2. Closed.at = "closed"
    BY DEF Closed
  <2>3. new \in Round /\ new.at # "request"
    BY <2>2, ClosedType DEF MenuType, Round, Flags
  <2> HIDE DEF new
  <2>4. menu' \in [Clients -> Round]
        /\ \A d \in Clients : menu'[d].at = "request" => menu'[d] = menu[d]
    BY <2>1, <2>3 DEF MenuType
  <2>5. AsWanted' /\ WhatWasMeantStands'
    BY <2>1, <2>4, SentAlong DEF AsWanted, WhatWasMeantStands
  <2> QED BY <2>1, <2>4, <2>5 DEF MenuType
<1>4. CASE Applied(c)
  <2>1. kind' = kind /\ Goto(c, "list") /\ At(c, "request") /\ Apply(c)
    BY <1>4 DEF Applied
  <2> QED BY <2>1, ApplyMenu, GotoMenu DEF MenuType
<1>5. CASE RequestLost(c)
  <2>1. kind' = kind /\ At(c, "request") /\ (Goto(c, "list") \/ Goto(c, "raised"))
    BY <1>5 DEF RequestLost
  <2>2. table' \in Table /\ meant' \in Table /\ WhatWasMeantStands'
    <3>1. CASE Apply(c)
      BY <2>1, <3>1, ApplyMenu
    <3>2. CASE UNCHANGED <<table, meant>>
      BY <2>1, <3>2, SentAlong DEF MenuType, WhatWasMeantStands
    <3> QED BY <1>5, <3>1, <3>2 DEF RequestLost
  <2> QED BY <2>1, <2>2, GotoMenu DEF MenuType
<1>6. ASSUME NEW r \in Rows, Add(c, r) PROVE MenuInv'
  <2>1. table' = [table EXCEPT ![r] = NewRow(c)] /\ meant' = [meant EXCEPT ![r] = NewRow(c)]
        /\ kind' = kind /\ Goto(c, "list")
    BY <1>6 DEF Add
  <2>2. NewRow(c) \in [Fields -> Values]
    BY RowsType
  <2>3. table' \in Table /\ meant' \in Table
    BY <2>1, <2>2 DEF MenuType, Table
  <2>4. \A q \in Rows : table'[q] = meant'[q] \/ (table'[q] = table[q] /\ meant'[q] = meant[q])
    BY <2>1 DEF MenuType, Table
  <2>5. WhatWasMeantStands'
    BY <2>1, <2>4, SentAlong DEF WhatWasMeantStands
  <2> QED BY <2>1, <2>3, <2>5, GotoMenu DEF MenuType
<1> QED BY <1>1, <1>2, <1>3, <1>4, <1>5, <1>6, ChooseMenu DEF MenuStep

\* However the loop and the other clients step, the menus keep it.
LEMMA NextMenu == MenuInv /\ [ReplNext]_vars => MenuInv'
<1> SUFFICES ASSUME MenuInv, [ReplNext]_vars PROVE MenuInv'
  OBVIOUS
<1>1. ASSUME menuVars' = menuVars PROVE MenuInv'
  <2>1. UNCHANGED <<kind, table, menu, meant>>
    BY <1>1 DEF menuVars
  <2> QED BY <2>1, SentAlong DEF MenuInv, MenuType, AsWanted, WhatWasMeantStands
<1>2. ASSUME NEW c \in Clients, MenuStep(c) \/ Open(c) PROVE MenuInv'
  BY <1>2, StepMenu
<1>3. CASE OpenMenu \/ InMenu
  BY <1>2, <1>3, SessionAssumption DEF OpenMenu, InMenu
<1>4. CASE \E c \in Clients \ {Me} : OthersMenu(c)
  BY <1>2, <1>4 DEF OthersMenu
<1>5. CASE UNCHANGED vars
  BY <1>1, <1>5 DEF vars
<1>6. CASE Hydrate \/ Attach \/ Leave \/ New \/ Message \/ Files \/ Send \/ Submit \/ Command
  BY <1>1, <1>6 DEF Hydrate, Attach, Leave, New, Message, Files, Send, Submit, Command
<1>7. CASE \E s \in Ids : Switch(s) \/ DeleteChat(s) \/ OthersRename(s)
                          \/ \E title \in {"automatic", "chosen"} : Rename(s, title)
  BY <1>1, <1>7 DEF Switch, DeleteChat, OthersRename, Rename
<1>8. CASE \E n \in Commands : Asked(n) \/ Named(n) \/ Sent(n) \/ Dropped(n)
  BY <1>1, <1>8 DEF Asked, Named, Sent, Dropped, Running
<1> QED BY <1>3, <1>4, <1>5, <1>6, <1>7, <1>8 DEF ReplNext

\* What no form of the menu sends along is what was last meant for it.
THEOREM WhatWasMeant == ReplSpec => []WhatWasMeantStands
<1>1. ReplInit => MenuInv
  BY InitMenu DEF ReplInit
<1>2. MenuInv => WhatWasMeantStands
  BY DEF MenuInv
<1> QED BY <1>1, <1>2, NextMenu, PTL DEF ReplSpec

-----------------------------------------------------------------------------
(* The sessions                                                             *)

\* Removing a key leaves the others, in their order.
LEMMA RemoveKey ==
  ASSUME NEW S, NEW seq \in Seq(S), NEW i \in 1..Len(seq)
  PROVE  /\ RemoveAt(seq, i) \in Seq(S) /\ Len(RemoveAt(seq, i)) = Len(seq) - 1
         /\ \A j \in 1..(Len(seq) - 1) :
              RemoveAt(seq, i)[j] = seq[IF j < i THEN j ELSE j + 1]
<1> DEFINE a == SubSeq(seq, 1, i - 1)
           b == SubSeq(seq, i + 1, Len(seq))
<1>1. a \in Seq(S) /\ Len(a) = i - 1 /\ \A j \in 1..(i - 1) : a[j] = seq[j]
  BY SubSeqProperties
<1>2. b \in Seq(S) /\ Len(b) = Len(seq) - i /\ \A j \in 1..(Len(seq) - i) : b[j] = seq[i + j]
  BY SubSeqProperties
<1>3. RemoveAt(seq, i) = a \o b
  BY DEF RemoveAt
<1> HIDE DEF a, b
<1>4. Len(seq) \in Nat /\ i \in Nat /\ i <= Len(seq) /\ i > 0
  OBVIOUS
<1>5. /\ a \o b \in Seq(S) /\ Len(a \o b) = Len(a) + Len(b)
      /\ \A j \in 1..(Len(a) + Len(b)) :
           (a \o b)[j] = IF j <= Len(a) THEN a[j] ELSE b[j - Len(a)]
  BY <1>1, <1>2, ConcatProperties
<1>6. Len(a) + Len(b) = Len(seq) - 1
  BY <1>1, <1>2, <1>4
<1>7. ASSUME NEW j \in 1..(Len(seq) - 1)
      PROVE  (a \o b)[j] = seq[IF j < i THEN j ELSE j + 1]
  <2>1. CASE j < i
    BY <1>1, <1>2, <1>4, <1>5, <2>1
  <2>2. CASE ~(j < i)
    <3>1. j - Len(a) \in 1..(Len(seq) - i) /\ i + (j - Len(a)) = j + 1 /\ ~(j <= Len(a))
      BY <1>1, <1>4, <2>2
    <3>2. (a \o b)[j] = b[j - Len(a)]
      BY <1>1, <1>2, <1>4, <1>5, <3>1
    <3>3. b[j - Len(a)] = seq[j + 1]
      BY <1>2, <3>1
    <3> QED BY <2>2, <3>2, <3>3
  <2> QED BY <2>1, <2>2
<1>8. /\ a \o b \in Seq(S) /\ Len(a \o b) = Len(seq) - 1
      /\ \A j \in 1..(Len(seq) - 1) : (a \o b)[j] = seq[IF j < i THEN j ELSE j + 1]
  BY <1>5, <1>6, <1>7
<1> QED BY <1>3, <1>8

\* The keys are the elements of the list.
LEMMA ListedKeys ==
  ASSUME sessions \in Seq(Ids), NEW s
  PROVE  s \in Range(sessions) <=> \E i \in 1..Len(sessions) : sessions[i] = s
BY DEF Range

\* An id that has been made, and one that is still to be made.
LEMMA IdsOf ==
  /\ Stored \in Nat /\ MaxNew \in Nat /\ MaxNew > 0 /\ Default \in Ids /\ Default = 0
  /\ \A n \in Stored..(Stored + MaxNew) : n < Stored + MaxNew =>
       n + 1 \in Ids /\ n + 1 \in Stored..(Stored + MaxNew)
  /\ Ids \subseteq Nat
BY SessionAssumption DEF Ids, Default

\* A command typed is one more, within the bound.
LEMMA TypedMore ==
  ASSUME LoopInv, Types
  PROVE  /\ loop = "prompt" /\ typed' \in Nat /\ typed' <= MaxCommands /\ typed' > 0
         /\ typed' \in Commands
BY SessionAssumption DEF Types, LoopInv, ReplType, Commands

\* The loop begins with the default chat, and nothing named or removed.
LEMMA InitLoop == ReplInit => LoopInv
<1> SUFFICES ASSUME ReplInit PROVE LoopInv
  OBVIOUS
<1> USE IdsOf DEF ReplInit
<1>1. ReplType
  <2>1. NoTask \in TaskType
    BY DEF NoTask, TaskType
  <2>2. typed \in Nat /\ typed <= MaxCommands
    BY SessionAssumption
  <2>3. sessions \in Seq(Ids) /\ label \in [Ids -> Titles]
    BY DEF Titles
  <2>4. active \in Ids /\ shared \in BOOLEAN /\ fresh \in Stored..(Stored + MaxNew)
    OBVIOUS
  <2>5. tasks \in [Commands -> TaskType]
    BY <2>1
  <2> QED BY <2>2, <2>3, <2>4, <2>5 DEF ReplType
<1>2. Keys
  BY DEF Keys
<1>3. Gone
  BY DEF Gone, RemovedStaysRemoved, NoTask
<1>4. Labelled /\ Taken
  BY DEF Labelled, Taken
<1> QED BY <1>1, <1>2, <1>3, <1>4 DEF LoopInv

\* Listing the chats of the server.
LEMMA HydrateLoop == LoopInv /\ Hydrate => LoopInv'
<1> SUFFICES ASSUME LoopInv, Hydrate PROVE LoopInv'
  OBVIOUS
<1> USE IdsOf
<1>1. loop' = "attach" /\ loop = "hydrate"
      /\ UNCHANGED <<shared, fresh, tasks, chats, named, taken, removed, typed>>
  BY DEF Hydrate
<1>2. fresh = Stored /\ named = {} /\ taken = {} /\ removed = {}
  BY <1>1 DEF LoopInv, Keys
<1>3. CASE UNCHANGED <<sessions, label, active>>
  BY <1>1, <1>3 DEF LoopInv, ReplType, Keys, Gone, Labelled, Taken, RemovedStaysRemoved
<1>4. CASE /\ sessions' = <<Default>> \o [i \in 1..Stored |-> i]
           /\ label' \in [Ids -> Titles]
           /\ active' = IF Stored > 0 THEN 1 ELSE Default
  <2> DEFINE l == [i \in 1..Stored |-> i]
  <2>1. l \in Seq(Ids) /\ Len(l) = Stored /\ \A i \in 1..Stored : l[i] = i
    BY DEF Ids
  <2>2. <<Default>> \in Seq(Ids) /\ Len(<<Default>>) = 1 /\ <<Default>>[1] = 0
    OBVIOUS
  <2> HIDE DEF l
  <2>3. sessions' \in Seq(Ids) /\ Len(sessions') = Stored + 1
        /\ \A i \in 1..(Stored + 1) : sessions'[i] = i - 1
    BY <1>4, <2>1, <2>2, ConcatProperties DEF l
  <2>4. active' \in Ids /\ active' <= Stored
    BY <1>4 DEF Ids
  <2>5. ReplType'
    BY <1>1, <1>4, <2>3, <2>4 DEF LoopInv, ReplType
  <2>6. Keys'
    BY <1>1, <1>2, <2>3, <2>4 DEF Keys
  <2>7. Gone' /\ Labelled' /\ Taken'
    BY <1>1, <1>2 DEF Gone, Labelled, Taken, RemovedStaysRemoved
  <2> QED BY <2>5, <2>6, <2>7 DEF LoopInv
<1> QED BY <1>3, <1>4 DEF Hydrate

\* A new chat that is listed last, or alone, and is the active one.
LEMMA NewKey ==
  ASSUME LoopInv, fresh < Stored + MaxNew, fresh' = fresh + 1, active' = fresh',
         \/ sessions' = Append(sessions, fresh')
         \/ sessions' = <<fresh'>> /\ named = {},
         label' = [label EXCEPT ![fresh'] = "automatic"],
         loop' \in {"prompt", loop}, loop \notin {"hydrate"}, loop' # "attach",
         UNCHANGED <<tasks, chats, named, taken, removed>>, shared' \in BOOLEAN,
         typed' \in Nat, typed' <= MaxCommands, loop' = "send" => typed' > 0
  PROVE  LoopInv'
<1> USE IdsOf DEF LoopInv
<1>1. fresh \in Stored..(Stored + MaxNew) /\ fresh \in Nat /\ fresh' \in Ids
      /\ fresh' \in Stored..(Stored + MaxNew) /\ fresh' # Default
  BY DEF ReplType, Ids
<1>2. sessions \in Seq(Ids) /\ Len(sessions) \in Nat
  BY DEF ReplType
<1>3. PICK n \in {0, Len(sessions)} :
        /\ sessions' \in Seq(Ids) /\ Len(sessions') = n + 1 /\ sessions'[n + 1] = fresh'
        /\ \A i \in 1..n : sessions'[i] = sessions[i]
        /\ n = 0 => n = Len(sessions) \/ named = {}
  <2>1. CASE sessions' = Append(sessions, fresh')
    BY <1>1, <1>2, <2>1, AppendProperties
  <2>2. CASE sessions' = <<fresh'>> /\ named = {}
    BY <1>1, <2>2
  <2> QED BY <2>1, <2>2
<1>4. \A i \in DOMAIN sessions : sessions[i] <= fresh /\ sessions[i] # fresh' /\ sessions[i] \in Nat
  BY <1>1, <1>2 DEF Keys, Ids
<1>5. ReplType'
  BY <1>1, <1>3 DEF ReplType, Titles
<1>10. \A i \in DOMAIN sessions' :
         \/ i = n + 1 /\ sessions'[i] = fresh'
         \/ i \in DOMAIN sessions /\ sessions'[i] = sessions[i]
  <2> SUFFICES ASSUME NEW i \in 1..(n + 1), i # n + 1
               PROVE  i \in 1..Len(sessions) /\ sessions'[i] = sessions[i]
    BY <1>2, <1>3
  <2>1. n \in Nat /\ n <= Len(sessions)
    BY <1>2, <1>3
  <2>2. i \in 1..n
    BY <2>1
  <2> QED BY <1>2, <1>3, <2>1, <2>2
<1>6. Keys'
  <2>1. ASSUME NEW i \in DOMAIN sessions', NEW j \in DOMAIN sessions',
               sessions'[i] = sessions'[j]
        PROVE  i = j
    <3>1. CASE i = n + 1 /\ sessions'[i] = fresh'
      BY <1>4, <1>10, <2>1, <3>1
    <3>2. CASE i \in DOMAIN sessions /\ sessions'[i] = sessions[i]
      BY <1>4, <1>10, <2>1, <3>2 DEF Keys
    <3> QED BY <1>10, <3>1, <3>2
  <2>2. \A i \in DOMAIN sessions' : sessions'[i] <= fresh'
    BY <1>1, <1>2, <1>3, <1>4
  <2>3. loop' \notin {"hydrate", "attach"}
    OBVIOUS
  <2> QED BY <1>1, <2>1, <2>2, <2>3 DEF Keys
<1>7. Gone'
  <2>1. fresh' \notin removed
    BY <1>1 DEF Gone
  <2>2. \A s \in removed' : s <= fresh'
    BY <1>1 DEF Gone, ReplType, Ids
  <2>3. \A i \in DOMAIN sessions' : sessions'[i] \notin removed' \ {Default}
    BY <1>10, <2>1 DEF Gone
  <2> QED BY <1>1, <2>1, <2>2, <2>3 DEF Gone, RemovedStaysRemoved
<1>8. Labelled'
  <2> SUFFICES ASSUME NEW s \in named
               PROVE  label'[s] = "chosen" /\ \E i \in DOMAIN sessions' : sessions'[i] = s
    BY DEF Labelled
  <2>1. PICK i \in DOMAIN sessions : sessions[i] = s
    BY DEF Labelled
  <2>2. n = Len(sessions)
    BY <1>3
  <2>3. i \in DOMAIN sessions' /\ sessions'[i] = s
    BY <1>2, <1>3, <2>1, <2>2
  <2>4. s # fresh' /\ s \in Ids
    BY <1>4, <2>1 DEF ReplType
  <2> QED BY <2>3, <2>4 DEF Labelled, ReplType
<1>9. Taken'
  BY DEF Taken
<1> QED BY <1>5, <1>6, <1>7, <1>8, <1>9

\* A terminal that is shared leaves the default chat before it prompts.
LEMMA AttachLoop == LoopInv /\ Attach => LoopInv'
<1> SUFFICES ASSUME LoopInv, Attach PROVE LoopInv'
  OBVIOUS
<1>1. loop = "attach" /\ loop' = "prompt"
      /\ UNCHANGED <<shared, tasks, chats, named, taken, removed, typed>>
  BY DEF Attach
<1>2. CASE UNCHANGED <<sessions, label, active, fresh>>
  BY <1>1, <1>2 DEF LoopInv, ReplType, Keys, Gone, Labelled, Taken, RemovedStaysRemoved
<1>3. CASE /\ fresh' = fresh + 1 /\ active' = fresh' /\ sessions' = <<fresh'>>
           /\ label' = [label EXCEPT ![fresh'] = "automatic"]
  <2>1. named = {} /\ fresh < Stored + MaxNew
    BY <1>1, IdsOf DEF LoopInv, Keys
  <2> QED BY <1>1, <1>3, <2>1, NewKey DEF LoopInv, ReplType
<1> QED BY <1>2, <1>3 DEF Attach

\* A new session.
LEMMA NewLoop == LoopInv /\ New => LoopInv'
<1> SUFFICES ASSUME LoopInv, New PROVE LoopInv'
  OBVIOUS
<1>1. typed' \in Nat /\ typed' <= MaxCommands /\ typed' > 0
  BY TypedMore DEF New
<1>2. loop = "prompt" /\ loop' = "prompt" /\ shared' = shared
  BY DEF New, Types
<1> QED BY <1>1, <1>2, NewKey DEF New, LoopInv, ReplType

\* Steps that leave the list, the titles and the chats alone, and start no task.
LEMMA IdleLoop ==
  ASSUME LoopInv, loop' \in {"prompt", "send", "menu", "left"},
         UNCHANGED <<sessions, label, fresh, chats, named, taken, removed>>,
         tasks' \in [Commands -> TaskType],
         \A n \in Commands : tasks'[n] = tasks[n] \/ tasks'[n] = NoTask,
         typed' \in Nat, typed' <= MaxCommands, loop' = "send" => typed' > 0,
         shared' \in BOOLEAN,
         active' = active \/ \E i \in DOMAIN sessions : active' = sessions[i]
  PROVE  LoopInv'
<1> USE DEF LoopInv
<1>1. ReplType'
  BY DEF ReplType
<1>2. Keys'
  BY DEF Keys
<1>3. Gone'
  BY DEF Gone, RemovedStaysRemoved, NoTask
<1>4. Labelled'
  BY DEF Labelled
<1>5. Taken'
  BY DEF Taken, NoTask
<1> QED BY <1>1, <1>2, <1>3, <1>4, <1>5

\* Steps of the titles: what is there in the server's chats for a chat that may be
\* sent to, and the labels of what has no chosen name.
LEMMA TitlesLoop ==
  ASSUME LoopInv, loop' = "prompt", UNCHANGED <<sessions, active, fresh, removed, shared, tasks>>,
         typed' \in Nat, typed' <= MaxCommands,
         NEW s \in Ids, s \notin removed \ {Default},
         NEW t \in Titles, chats' \in {chats, [chats EXCEPT ![s] = t]},
         NEW u \in Titles, label' \in {label, [label EXCEPT ![s] = u]},
         named' \subseteq named \cup {s}, named \ {s} \subseteq named',
         s \in named' => label'[s] = "chosen" /\ \E i \in DOMAIN sessions : sessions[i] = s,
         taken' \subseteq taken \cup {s},
         s \in taken' => s \in named' /\ chats'[s] = "chosen" /\ ~Naming(s)
  PROVE  LoopInv'
<1> USE DEF LoopInv
<1>1. ReplType'
  BY DEF ReplType
<1>2. Keys'
  BY DEF Keys
<1>3. Gone'
  <2>1. \A r \in removed \ {Default} : chats'[r] = "none"
    BY DEF Gone, RemovedStaysRemoved, ReplType
  <2> QED BY <2>1 DEF Gone, RemovedStaysRemoved
<1>4. Labelled'
  BY DEF Labelled, ReplType
<1>5. Taken'
  <2> SUFFICES ASSUME NEW r \in taken'
               PROVE  /\ r \in named' /\ chats'[r] = "chosen"
                      /\ \A n \in Commands : tasks[n].chat = r => tasks[n].at # "patch"
    BY DEF Taken
  <2>1. CASE r = s
    BY <2>1 DEF Naming
  <2>2. CASE r # s
    <3>1. r \in taken /\ r \in Ids
      BY <2>2 DEF ReplType
    <3>2. chats'[r] = chats[r]
      BY <2>2, <3>1 DEF ReplType
    <3> QED BY <2>2, <3>1, <3>2 DEF Taken
  <2> QED BY <2>1, <2>2
<1> QED BY <1>1, <1>2, <1>3, <1>4, <1>5

\* A chat that may be sent to is one of the list, or the default one.
LEMMA MayBeSent ==
  LoopInv => /\ active \in Ids /\ active \notin removed \ {Default}
             /\ \A i \in DOMAIN sessions :
                  sessions[i] \in Ids /\ sessions[i] \notin removed \ {Default}
BY DEF LoopInv, ReplType, Gone

\* Renaming, by this user or by another.
LEMMA RenameLoop ==
  ASSUME LoopInv, NEW s \in Ids
  PROVE  /\ \A title \in {"automatic", "chosen"} : Rename(s, title) => LoopInv'
         /\ OthersRename(s) => LoopInv'
<1>1. ASSUME NEW title \in {"automatic", "chosen"}, Rename(s, title) PROVE LoopInv'
  <2>1. PICK i \in 1..Len(sessions) : sessions[i] = s
    BY <1>1, ListedKeys DEF Rename, LoopInv, ReplType
  <2>2. s \notin removed \ {Default}
    BY <2>1 DEF LoopInv, Gone, ReplType
  <2>3. /\ UNCHANGED <<sessions, active, fresh, removed, shared, tasks>>
        /\ loop' = "prompt" /\ typed' \in Nat /\ typed' <= MaxCommands
    BY <1>1, TypedMore DEF Rename
  <2>4. chats' \in {chats, [chats EXCEPT ![s] = title]} /\ title \in Titles
    BY <1>1 DEF Rename, Patch, Titles
  <2>5. label' = [label EXCEPT ![s] = title]
    BY <1>1 DEF Rename, Renamed
  <2>6. named' = IF title = "chosen" THEN named \cup {s} ELSE named \ {s}
    BY <1>1 DEF Rename
  <2>7. label'[s] = title
    BY <2>5 DEF LoopInv, ReplType
  <2>8. s \in named' => label'[s] = "chosen" /\ \E j \in DOMAIN sessions : sessions[j] = s
    BY <2>1, <2>6, <2>7 DEF LoopInv, ReplType
  <2>9. taken' = IF title = "chosen" /\ chats'[s] = title /\ ~Naming(s) THEN taken \cup {s}
                 ELSE taken \ {s}
    BY <1>1 DEF Rename
  <2>10. taken' \subseteq taken \cup {s}
         /\ (s \in taken' => s \in named' /\ chats'[s] = "chosen" /\ ~Naming(s))
    BY <2>6, <2>9
  <2>11. label' \in {label, [label EXCEPT ![s] = title]}
    BY <2>5
  <2>12. named' \subseteq named \cup {s} /\ named \ {s} \subseteq named'
    BY <2>6
  <2> QED BY <2>2, <2>3, <2>4, <2>8, <2>10, <2>11, <2>12, TitlesLoop
<1>2. ASSUME OthersRename(s) PROVE LoopInv'
  <2>1. chats[s] # "none" /\ chats' = [chats EXCEPT ![s] = "chosen"]
        /\ UNCHANGED <<loop, sessions, label, active, shared, fresh, tasks, named, taken,
                       removed, typed>>
    BY <1>2 DEF OthersRename
  <2>2. s \notin removed \ {Default}
    BY <2>1 DEF LoopInv, Gone, RemovedStaysRemoved
  <2>3. ReplType'
    BY <2>1 DEF LoopInv, ReplType, Titles
  <2>4. Gone'
    BY <2>1, <2>2 DEF LoopInv, ReplType, Gone, RemovedStaysRemoved
  <2>5. Taken'
    BY <2>1 DEF LoopInv, ReplType, Taken
  <2> QED BY <2>1, <2>3, <2>4, <2>5 DEF LoopInv, Keys, Labelled
<1> QED BY <1>1, <1>2

\* The tasks of a shared terminal: one is started for a chat that may be sent to.
LEMMA StartLoop ==
  ASSUME LoopInv, NEW k \in Commands, NEW title \in {"message", "command"},
         tasks' = [tasks EXCEPT ![k] = Task(active, title)], loop' = "prompt",
         typed' \in Nat, typed' <= MaxCommands,
         UNCHANGED <<sessions, label, active, shared, fresh, chats, named, taken, removed>>
  PROVE  LoopInv'
<1> USE DEF LoopInv
<1> DEFINE new == Task(active, title)
<1>1. new \in TaskType /\ new.at = "get" /\ new.chat = active
  BY DEF Task, TaskType, ReplType
<1> HIDE DEF new
<1>2. tasks' = [tasks EXCEPT ![k] = new]
  BY DEF new
<1>3. ReplType'
  BY <1>1, <1>2 DEF ReplType
<1>4. Keys' /\ Labelled'
  BY DEF Keys, Labelled
<1>5. \A n \in Commands : tasks'[n] = tasks[n] \/ tasks'[n] = new
  BY <1>2 DEF ReplType
<1>6. Gone'
  BY <1>1, <1>5 DEF Gone, RemovedStaysRemoved
<1>7. Taken'
  BY <1>1, <1>5 DEF Taken
<1> QED BY <1>3, <1>4, <1>6, <1>7

\* A task steps: it asks for its chat, makes or names it, sends to it, or is over.
LEMMA TaskLoop ==
  ASSUME LoopInv, NEW n \in Commands, NEW t \in Titles, NEW new \in TaskType,
         tasks[n].at # "none", tasks' = [tasks EXCEPT ![n] = new],
         new.at = "none" \/ new.chat = tasks[n].chat,
         new.at = "patch" => chats[tasks[n].chat] = "none",
         chats' \in {chats, [chats EXCEPT ![tasks[n].chat] = t]},
         chats[tasks[n].chat] = "chosen" /\ tasks[n].at # "patch" => chats' = chats,
         UNCHANGED <<loop, sessions, label, active, shared, fresh, named, taken, removed, typed>>
  PROVE  LoopInv'
<1> USE DEF LoopInv
<1> DEFINE s == tasks[n].chat
<1>1. s \in Ids /\ s \notin removed \ {Default}
  BY DEF ReplType, TaskType, Gone
<1>2. ReplType'
  BY <1>1 DEF ReplType
<1>3. Keys' /\ Labelled'
  BY DEF Keys, Labelled
<1>4. \A m \in Commands : tasks'[m] = tasks[m] \/ tasks'[m] = new
  BY DEF ReplType
<1>5. Gone'
  <2>1. \A r \in removed \ {Default} : chats'[r] = "none"
    BY <1>1 DEF Gone, RemovedStaysRemoved, ReplType
  <2> QED BY <1>1, <1>4, <2>1 DEF Gone, RemovedStaysRemoved
<1>6. Taken'
  <2> SUFFICES ASSUME NEW r \in taken
               PROVE  /\ r \in named /\ chats'[r] = "chosen"
                      /\ \A m \in Commands : tasks'[m].chat = r => tasks'[m].at # "patch"
    BY DEF Taken
  <2>1. r \in Ids /\ r \in named /\ chats[r] = "chosen"
        /\ \A m \in Commands : tasks[m].chat = r => tasks[m].at # "patch"
    BY DEF Taken, ReplType
  <2>2. CASE r = s
    BY <1>4, <2>1, <2>2
  <2>3. CASE r # s
    <3>1. chats'[r] = chats[r]
      BY <2>1, <2>3 DEF ReplType
    <3> QED BY <1>4, <2>1, <2>3, <3>1
  <2> QED BY <2>2, <2>3
<1> QED BY <1>2, <1>3, <1>5, <1>6

\* What the server does with a turn of a chat it has not got.
LEMMA PostedChat ==
  ASSUME LoopInv, NEW s \in Ids, Posted(s)
  PROVE  /\ chats' \in {chats, [chats EXCEPT ![s] = "automatic"]}
         /\ chats[s] = "chosen" => chats' = chats
BY DEF Posted, LoopInv, ReplType

\* Every step of a task.
LEMMA TasksLoop ==
  ASSUME LoopInv, NEW n \in Commands, Asked(n) \/ Named(n) \/ Sent(n) \/ Dropped(n)
  PROVE  LoopInv'
<1> DEFINE s == tasks[n].chat
           Rest == UNCHANGED <<loop, sessions, label, active, shared, fresh, named, taken,
                               removed, typed>>
<1>1. tasks[n] \in TaskType /\ s \in Ids /\ tasks[n].title \in Titles /\ "automatic" \in Titles
  BY DEF LoopInv, ReplType, TaskType, Titles
<1>2. NoTask \in TaskType /\ NoTask.at = "none"
  BY IdsOf DEF NoTask, TaskType
<1>3. CASE Asked(n)
  <2> DEFINE new == [tasks[n] EXCEPT !.at = IF chats[s] = "none" THEN "patch" ELSE "post"]
  <2>1. tasks' = [tasks EXCEPT ![n] = new] /\ Rest /\ chats' = chats /\ tasks[n].at = "get"
    BY <1>3 DEF Asked, Running, Goes, LoopInv, ReplType
  <2>2. new \in TaskType /\ new.chat = s /\ (new.at = "patch" => chats[s] = "none")
    BY <1>1 DEF TaskType
  <2> HIDE DEF new
  <2> QED BY <1>1, <2>1, <2>2, TaskLoop
<1>4. CASE Named(n)
  <2> DEFINE new == [tasks[n] EXCEPT !.at = "post"]
  <2>1. tasks' = [tasks EXCEPT ![n] = new] /\ Rest /\ tasks[n].at = "patch"
        /\ chats' = [chats EXCEPT ![s] = tasks[n].title]
    BY <1>4 DEF Named, Running, Goes, Titled, LoopInv, ReplType
  <2>2. new \in TaskType /\ new.chat = s /\ new.at = "post"
    BY <1>1 DEF TaskType
  <2> HIDE DEF new
  <2> QED BY <1>1, <2>1, <2>2, TaskLoop
<1>5. CASE Sent(n)
  <2>1. tasks' = [tasks EXCEPT ![n] = NoTask] /\ Rest /\ tasks[n].at = "post" /\ Posted(s)
    BY <1>5 DEF Sent, Running
  <2> QED BY <1>1, <1>2, <2>1, PostedChat, TaskLoop
<1>6. CASE Dropped(n)
  <2>1. tasks' = [tasks EXCEPT ![n] = NoTask] /\ Rest /\ tasks[n].at # "none"
    BY <1>6 DEF Dropped
  <2>2. CASE UNCHANGED chats
    BY <1>1, <1>2, <2>1, <2>2, TaskLoop
  <2>3. CASE tasks[n].at = "patch" /\ Titled(n)
    BY <1>1, <1>2, <2>1, <2>3, TaskLoop DEF Titled
  <2>4. CASE tasks[n].at = "post" /\ Posted(s)
    BY <1>1, <1>2, <2>1, <2>4, PostedChat, TaskLoop
  <2> QED BY <1>6, <2>2, <2>3, <2>4 DEF Dropped
<1> QED BY <1>3, <1>4, <1>5, <1>6

\* A message, and its sending.
LEMMA MessageLoop == LoopInv /\ (Message \/ Files \/ Send \/ Submit \/ Command) => LoopInv'
<1> SUFFICES ASSUME LoopInv, Message \/ Files \/ Send \/ Submit \/ Command PROVE LoopInv'
  OBVIOUS
<1>1. CASE Message /\ UNCHANGED <<sessions, label, chats>>
  <2>1. /\ loop' = "send" /\ UNCHANGED <<active, shared, fresh, tasks, named, taken, removed>>
        /\ typed' \in Nat /\ typed' <= MaxCommands /\ typed' > 0
    BY <1>1, TypedMore DEF Message
  <2> QED BY <1>1, <2>1, IdleLoop DEF LoopInv, ReplType
<1>2. CASE Files
  <2>1. /\ loop' \in {"send", "prompt"} /\ typed' \in Nat /\ typed' <= MaxCommands /\ typed' > 0
        /\ UNCHANGED <<sessions, label, chats, active, shared, fresh, tasks, named, taken, removed>>
    BY <1>2, TypedMore DEF Files
  <2> QED BY <2>1, IdleLoop DEF LoopInv, ReplType
<1>3. CASE Send
  <2>1. /\ loop' = "prompt" /\ Posted(active)
        /\ UNCHANGED <<sessions, label, active, shared, fresh, tasks, named, taken, removed, typed>>
    BY <1>3 DEF Send
  <2>2. active \in Ids /\ active \notin removed \ {Default}
    BY MayBeSent
  <2>3. /\ chats' \in {chats, [chats EXCEPT ![active] = "automatic"]}
        /\ chats[active] = "chosen" => chats' = chats
    BY <2>1, <2>2, PostedChat
  <2>4. active \in named' => (label'[active] = "chosen"
                              /\ \E i \in DOMAIN sessions : sessions[i] = active)
    BY <2>1 DEF LoopInv, Labelled
  <2>5. active \in taken' => active \in named' /\ chats'[active] = "chosen" /\ ~Naming(active)
    BY <2>1, <2>3 DEF LoopInv, Taken, Naming
  <2>6. label' \in {label, [label EXCEPT ![active] = "automatic"]} /\ "automatic" \in Titles
    BY <2>1 DEF Titles
  <2>7. typed' \in Nat /\ typed' <= MaxCommands
    BY <2>1 DEF LoopInv, ReplType
  <2>8. /\ named' \subseteq named \cup {active} /\ named \ {active} \subseteq named'
        /\ taken' \subseteq taken \cup {active}
    BY <2>1
  <2> QED BY <2>1, <2>2, <2>3, <2>4, <2>5, <2>6, <2>7, <2>8, TitlesLoop
<1>5. CASE Submit
  <2>1. typed \in Commands /\ typed \in Nat /\ typed <= MaxCommands
    BY <1>5, SessionAssumption DEF Submit, LoopInv, ReplType, Commands
  <2> QED BY <1>5, <2>1, StartLoop DEF Submit
<1>6. CASE Command
  <2>1. typed' \in Commands /\ typed' \in Nat /\ typed' <= MaxCommands /\ loop = "prompt"
    BY <1>6, TypedMore DEF Command
  <2> QED BY <1>6, <2>1, StartLoop DEF Command
<1>4. CASE /\ Message /\ Automatic(active) /\ Patch(active, "message")
           /\ label' = [label EXCEPT ![active] = "message"]
           /\ sessions' = IF active \in Range(sessions) THEN sessions
                          ELSE Append(sessions, active)
  <2> USE DEF LoopInv
  <2>1. /\ loop' = "send" /\ UNCHANGED <<active, shared, fresh, tasks, named, taken, removed>>
        /\ typed' \in Nat /\ typed' <= MaxCommands /\ typed' > 0
    BY <1>4, TypedMore DEF Message
  <2>2. active \notin named
    BY <1>4, ListedKeys DEF Automatic, Labelled, ReplType
  <2>3. chats' \in {chats, [chats EXCEPT ![active] = "message"]}
    BY <1>4 DEF Patch
  <2>4. PICK n \in {Len(sessions), Len(sessions) + 1} :
          /\ sessions' \in Seq(Ids) /\ Len(sessions') = n
          /\ \A i \in 1..Len(sessions) : sessions'[i] = sessions[i] /\ i \in 1..n
          /\ n = Len(sessions) + 1 => /\ sessions'[n] = active
                                      /\ \A i \in 1..Len(sessions) : sessions[i] # active
    <3>1. CASE active \in Range(sessions)
      BY <1>4, <3>1 DEF ReplType
    <3>2. CASE active \notin Range(sessions)
      BY <1>4, <3>2, ListedKeys, AppendProperties DEF ReplType
    <3> QED BY <3>1, <3>2
  <2>5. Len(sessions) \in Nat
    BY DEF ReplType
  <2>6. ReplType'
    BY <1>4, <2>1, <2>3, <2>4 DEF ReplType, Titles
  <2>7. Keys'
    <3>1. \A i, j \in DOMAIN sessions' : sessions'[i] = sessions'[j] => i = j
      BY <2>4, <2>5 DEF Keys, ReplType
    <3>2. \A i \in DOMAIN sessions' : sessions'[i] <= fresh
      BY <2>4, <2>5 DEF Keys, ReplType
    <3> QED BY <2>1, <3>1, <3>2 DEF Keys
  <2>8. Gone'
    <3>1. \A i \in DOMAIN sessions' : sessions'[i] \notin removed \ {Default}
      BY <2>4, <2>5, MayBeSent DEF Gone, ReplType
    <3>2. \A r \in removed \ {Default} : chats'[r] = "none"
      BY <2>3, MayBeSent DEF Gone, RemovedStaysRemoved, ReplType
    <3> QED BY <2>1, <3>1, <3>2 DEF Gone, RemovedStaysRemoved
  <2>9. Labelled'
    <3> SUFFICES ASSUME NEW s \in named
                 PROVE  label'[s] = "chosen" /\ \E i \in DOMAIN sessions' : sessions'[i] = s
      BY <2>1 DEF Labelled
    <3>1. PICK i \in DOMAIN sessions : sessions[i] = s
      BY DEF Labelled
    <3>2. i \in DOMAIN sessions' /\ sessions'[i] = s
      BY <2>4, <2>5, <3>1 DEF ReplType
    <3>3. label'[s] = "chosen"
      BY <1>4, <2>2 DEF Labelled, ReplType
    <3> QED BY <3>2, <3>3
  <2>10. Taken'
    <3> SUFFICES ASSUME NEW s \in taken PROVE chats'[s] = "chosen" /\ s \in Ids
      BY <2>1 DEF Taken
    <3>1. s \in named /\ s # active /\ s \in Ids
      BY <2>2 DEF Taken, ReplType
    <3> QED BY <2>3, <3>1 DEF Taken, ReplType
  <2> QED BY <2>6, <2>7, <2>8, <2>9, <2>10
<1> QED BY <1>1, <1>2, <1>3, <1>4, <1>5, <1>6 DEF Message

\* Deleting a chat: the others stay, and one of them, or the default one, is active.
LEMMA DeleteLoop ==
  ASSUME LoopInv, NEW s \in Ids, DeleteChat(s)
  PROVE  LoopInv'
<1> USE IdsOf DEF LoopInv
<1>1. PICK k \in 1..Len(sessions) : sessions[k] = s /\ sessions' = RemoveAt(sessions, k)
  BY DEF DeleteChat, ReplType
<1>2. Len(sessions) \in Nat
  BY DEF ReplType
<1>3. /\ sessions' \in Seq(Ids) /\ Len(sessions') = Len(sessions) - 1
      /\ \A j \in 1..Len(sessions') : sessions'[j] = sessions[IF j < k THEN j ELSE j + 1]
  <2> sessions \in Seq(Ids) /\ k \in 1..Len(sessions) /\ sessions' = RemoveAt(sessions, k)
    BY <1>1 DEF ReplType
  <2> HIDE DEF LoopInv
  <2>1. /\ RemoveAt(sessions, k) \in Seq(Ids)
        /\ Len(RemoveAt(sessions, k)) = Len(sessions) - 1
        /\ \A j \in 1..(Len(sessions) - 1) :
             RemoveAt(sessions, k)[j] = sessions[IF j < k THEN j ELSE j + 1]
    BY RemoveKey
  <2> QED BY <2>1
<1>4. \A j \in DOMAIN sessions' : (IF j < k THEN j ELSE j + 1) \in DOMAIN sessions \ {k}
  BY <1>1, <1>2, <1>3 DEF ReplType
<1>5. ASSUME NEW j \in DOMAIN sessions' PROVE sessions'[j] # s
  <2> DEFINE n == IF j < k THEN j ELSE j + 1
  <2>1. n \in DOMAIN sessions /\ n # k /\ sessions'[j] = sessions[n]
    BY <1>3, <1>4
  <2> HIDE DEF n
  <2>2. k \in DOMAIN sessions /\ sessions[k] = s
    BY <1>1 DEF ReplType
  <2> QED BY <2>1, <2>2 DEF Keys
<1>6. /\ loop = "prompt" /\ loop' = "prompt" /\ UNCHANGED <<label, shared, fresh, tasks>>
      /\ typed' \in Nat /\ typed' <= MaxCommands /\ named' = named \ {s} /\ taken' = taken \ {s}
      /\ \/ /\ chats' = [chats EXCEPT ![s] = "none"]
            /\ removed' = IF UnderWay(s) THEN removed ELSE removed \cup {s}
         \/ UNCHANGED <<chats, removed>>
  <2>1. typed' \in Nat /\ typed' <= MaxCommands
    BY TypedMore DEF DeleteChat
  <2> QED BY <2>1 DEF DeleteChat, Types
<1>14. removed' \subseteq removed \cup {s}
  BY <1>6
<1>7. \/ active' = active /\ active # s
      \/ active' = Default
      \/ \E j \in DOMAIN sessions' : active' = sessions'[j]
  <2>1. active' = ActiveWithout(s, sessions')
    BY DEF DeleteChat
  <2>2. CASE active # s
    BY <2>1, <2>2 DEF ActiveWithout
  <2>3. CASE active = s /\ sessions' = <<>>
    BY <2>1, <2>3 DEF ActiveWithout
  <2>4. CASE active = s /\ sessions' # <<>>
    <3>1. active' = Head(sessions')
      BY <2>1, <2>4 DEF ActiveWithout
    <3>2. 1 \in DOMAIN sessions' /\ Head(sessions') = sessions'[1]
      BY <1>3, <2>4
    <3> QED BY <3>1, <3>2
  <2> QED BY <2>2, <2>3, <2>4
<1>8. ASSUME NEW j \in DOMAIN sessions'
      PROVE  /\ sessions'[j] \in Ids /\ sessions'[j] <= fresh
             /\ sessions'[j] \notin removed \ {Default}
  <2>1. PICK n \in DOMAIN sessions : sessions'[j] = sessions[n]
    BY <1>3, <1>4
  <2>2. sessions[n] \in Ids
    BY DEF ReplType
  <2> QED BY <2>1, <2>2 DEF Keys, Gone
<1>9. active' \in Ids /\ active' <= fresh /\ active' \notin removed' \ {Default}
  BY <1>5, <1>6, <1>7, <1>8, <1>14 DEF ReplType, Keys, Gone
<1>10. ReplType'
  BY <1>3, <1>6, <1>9 DEF ReplType
<1>11. Keys'
  <2>1. ASSUME NEW i \in DOMAIN sessions', NEW j \in DOMAIN sessions',
               sessions'[i] = sessions'[j]
        PROVE  i = j
    <3> DEFINE p == IF i < k THEN i ELSE i + 1
               q == IF j < k THEN j ELSE j + 1
    <3>1. p \in DOMAIN sessions /\ q \in DOMAIN sessions
      BY <1>4
    <3>2. sessions'[i] = sessions[p] /\ sessions'[j] = sessions[q]
      <4> HIDE DEF LoopInv
      <4>1. DOMAIN sessions' = 1..Len(sessions')
        BY <1>3
      <4> QED BY <1>3, <4>1
    <3>3. p = q
      BY <2>1, <3>1, <3>2 DEF Keys
    <3>4. i \in Nat /\ j \in Nat /\ k \in Nat
      BY <1>1, <1>2, <1>3
    <3> QED BY <3>3, <3>4
  <2> QED BY <1>6, <1>8, <1>9, <2>1 DEF Keys
<1>12. Gone'
  <2>1. s <= fresh
    BY <1>1 DEF Keys, ReplType
  <2>2. \A r \in removed' : r <= fresh
    BY <1>14, <2>1 DEF Gone
  <2>3. \A j \in DOMAIN sessions' : sessions'[j] \notin removed' \ {Default}
    BY <1>5, <1>8, <1>14
  <2>4. ASSUME NEW r \in removed' \ {Default} PROVE chats'[r] = "none"
    <3>1. CASE UNCHANGED <<chats, removed>>
      BY <2>4, <3>1 DEF Gone, RemovedStaysRemoved
    <3>2. CASE chats' = [chats EXCEPT ![s] = "none"]
      <4>1. DOMAIN chats = Ids /\ r \in Ids
        BY <1>14, <2>4 DEF ReplType
      <4>2. r = s \/ chats[r] = "none"
        BY <1>14, <2>4 DEF Gone, RemovedStaysRemoved
      <4> QED BY <3>2, <4>1, <4>2
    <3> QED BY <1>6, <3>1, <3>2
  <2>5. ASSUME NEW n \in Commands, tasks[n].at # "none"
        PROVE  tasks[n].chat \notin removed' \ {Default}
    <3>1. tasks[n].chat \notin removed \ {Default}
      BY <2>5 DEF Gone
    <3>2. CASE tasks[n].chat = s
      BY <1>6, <2>5, <3>1, <3>2 DEF UnderWay
    <3>3. CASE tasks[n].chat # s
      BY <1>14, <3>1, <3>3
    <3> QED BY <3>2, <3>3
  <2> QED BY <1>6, <1>9, <2>2, <2>3, <2>4, <2>5 DEF Gone, RemovedStaysRemoved
<1>13. Labelled'
  <2> SUFFICES ASSUME NEW r \in named \ {s}
               PROVE  label'[r] = "chosen" /\ \E i \in DOMAIN sessions' : sessions'[i] = r
    BY <1>6 DEF Labelled
  <2>1. PICK i \in 1..Len(sessions) : sessions[i] = r
    BY DEF Labelled, ReplType
  <2>2. i # k
    BY <1>1, <2>1
  <2>3. CASE i < k
    <3>1. i \in DOMAIN sessions' /\ sessions'[i] = r
      BY <1>2, <1>3, <2>1, <2>3
    <3> QED BY <1>6, <3>1 DEF Labelled
  <2>4. CASE i > k
    <3>1. i - 1 \in DOMAIN sessions' /\ sessions'[i - 1] = r
      BY <1>2, <1>3, <2>1, <2>4
    <3> QED BY <1>6, <3>1 DEF Labelled
  <2> QED BY <2>2, <2>3, <2>4
<1>15. Taken'
  BY <1>6 DEF Taken, ReplType
<1> QED BY <1>10, <1>11, <1>12, <1>13, <1>15

\* Every step keeps it.
LEMMA NextLoop == LoopInv /\ [ReplNext]_vars => LoopInv'
<1> SUFFICES ASSUME LoopInv, [ReplNext]_vars PROVE LoopInv'
  OBVIOUS
<1>1. CASE UNCHANGED vars
  BY <1>1 DEF vars, replVars, LoopInv, ReplType, Keys, Gone, Labelled, Taken, RemovedStaysRemoved
<1>2. CASE Leave
  <2>1. tasks' \in [Commands -> TaskType]
        /\ \A n \in Commands : tasks'[n] = tasks[n] \/ tasks'[n] = NoTask
    BY <1>2, IdsOf DEF Leave, NoTask, TaskType, LoopInv, ReplType
  <2>2. typed' = typed /\ loop' = "left" /\ shared' \in BOOLEAN
        /\ UNCHANGED <<sessions, label, active, fresh, chats, named, taken, removed>>
    BY <1>2 DEF Leave
  <2> QED BY <2>1, <2>2, IdleLoop DEF LoopInv, ReplType
<1>3. CASE OpenMenu
  <2>1. typed' \in Nat /\ typed' <= MaxCommands /\ loop' = "menu"
        /\ UNCHANGED <<sessions, label, active, shared, fresh, tasks, chats, named, taken, removed>>
    BY <1>3, TypedMore DEF OpenMenu
  <2> QED BY <2>1, IdleLoop DEF LoopInv, ReplType
<1>4. ASSUME NEW c \in Clients, Counted(c) PROVE typed' \in Nat /\ typed' <= MaxCommands
  BY <1>4, SessionAssumption DEF Counted, LoopInv, ReplType
<1>5. CASE InMenu
  <2>1. loop' \in {"prompt", "menu"} /\ typed' \in Nat /\ typed' <= MaxCommands
        /\ UNCHANGED <<sessions, label, active, shared, fresh, tasks, chats, named, taken, removed>>
    BY <1>4, <1>5, SessionAssumption DEF InMenu
  <2> QED BY <2>1, IdleLoop DEF LoopInv, ReplType
<1>6. ASSUME NEW c \in Clients, OthersMenu(c) PROVE LoopInv'
  <2>1. typed' \in Nat /\ typed' <= MaxCommands /\ loop' = "menu"
        /\ UNCHANGED <<sessions, label, active, shared, fresh, tasks, chats, named, taken, removed>>
    BY <1>4, <1>6 DEF OthersMenu, LoopInv, ReplType
  <2> QED BY <2>1, IdleLoop DEF LoopInv, ReplType
<1>7. ASSUME NEW s \in Ids, Switch(s) PROVE LoopInv'
  <2>1. loop' = "prompt" /\ typed' \in Nat /\ typed' <= MaxCommands
        /\ UNCHANGED <<sessions, label, shared, fresh, tasks, chats, named, taken, removed>>
    BY <1>7, TypedMore DEF Switch
  <2>2. \E i \in DOMAIN sessions : active' = sessions[i]
    BY <1>7, ListedKeys DEF Switch, LoopInv, ReplType
  <2> QED BY <2>1, <2>2, IdleLoop DEF LoopInv, ReplType
<1> QED BY <1>1, <1>2, <1>3, <1>5, <1>6, <1>7, HydrateLoop, AttachLoop, NewLoop, MessageLoop,
           TasksLoop, DeleteLoop, RenameLoop DEF ReplNext

\* No chat that the server has removed, nothing being sent to it, is made again.
THEOREM RemovedChatsStay == ReplSpec => []RemovedStaysRemoved
<1>1. LoopInv => RemovedStaysRemoved
  BY DEF LoopInv, Gone
<1> QED BY <1>1, InitLoop, NextLoop, PTL DEF ReplSpec

\* A chat the user has named is not automatic, so no message names it; a task does
\* only when it has found it missing, and then its name was not taken.
LEMMA NamedIsKept ==
  ASSUME LoopInv, ReplNext, NEW s \in named, s \in named',
         chats'[s] # chats[s], chats'[s] \in {"message", "command"}
  PROVE  Naming(s) /\ s \notin taken
<1> USE DEF LoopInv
<1>1. s \in Ids /\ label[s] = "chosen" /\ s \in Range(sessions)
  BY ListedKeys DEF Labelled, ReplType
<1>2. Naming(s) => s \notin taken
  BY DEF Naming, Taken
<1>3. ASSUME NEW r \in Ids, NEW v \in {"none", "chosen", "automatic"},
             chats' = [chats EXCEPT ![r] = v]
      PROVE  FALSE
  BY <1>1, <1>3 DEF ReplType
<1>4. ASSUME NEW r \in Ids, Posted(r) PROVE FALSE
  <2>1. chats' \in {chats, [chats EXCEPT ![r] = "automatic"]}
    BY <1>4, PostedChat
  <2> QED BY <1>3, <2>1
<1>5. CASE Message
  <2>1. Automatic(active) /\ Patch(active, "message")
    BY <1>5 DEF Message
  <2>2. active # s
    BY <1>1, <2>1 DEF Automatic
  <2> QED BY <1>1, <2>1, <2>2 DEF Patch, ReplType
<1>6. ASSUME NEW n \in Commands, tasks[n].at = "patch", Titled(n) PROVE Naming(s)
  <2>1. tasks[n].chat = s
    BY <1>1, <1>6 DEF Titled, ReplType
  <2> QED BY <1>6, <2>1 DEF Naming
<1>7. ASSUME NEW n \in Commands, Asked(n) \/ Named(n) \/ Sent(n) \/ Dropped(n) PROVE Naming(s)
  <2>1. tasks[n].chat \in Ids
    BY DEF ReplType, TaskType
  <2> QED BY <1>4, <1>6, <1>7, <2>1 DEF Asked, Named, Sent, Dropped, Running
<1>8. ASSUME NEW r \in Ids, NEW title \in {"automatic", "chosen"}, Rename(r, title) PROVE FALSE
  BY <1>3, <1>8 DEF Rename, Patch
<1>9. ASSUME NEW r \in Ids, DeleteChat(r) PROVE FALSE
  BY <1>3, <1>9 DEF DeleteChat
<1>10. ASSUME NEW r \in Ids, OthersRename(r) PROVE FALSE
  BY <1>3, <1>10 DEF OthersRename
<1>11. CASE Send
  BY <1>4, <1>11, MayBeSent DEF Send
<1>12. CASE Hydrate \/ Attach \/ Leave \/ New \/ Files \/ Submit \/ Command \/ OpenMenu \/ InMenu
  BY <1>12 DEF Hydrate, Attach, Leave, New, Files, Submit, Command, OpenMenu, InMenu
<1>13. CASE (\E r \in Ids : Switch(r)) \/ \E c \in Clients \ {Me} : OthersMenu(c)
  BY <1>13 DEF Switch, OthersMenu
<1> QED BY <1>2, <1>5, <1>7, <1>8, <1>9, <1>10, <1>11, <1>12, <1>13 DEF ReplNext

\* A name the user gave is replaced by nothing that is sent, but by a task that
\* found the chat missing before the server took the name.
THEOREM ChosenTitlesStand == ReplSpec => ChosenTitleStands
<1>1. LoopInv /\ LoopInv' /\ [ReplNext]_vars
      => [\A s \in named \cap named' :
            /\ label'[s] = "chosen"
            /\ chats'[s] # chats[s] /\ chats'[s] \in {"message", "command"}
               => Naming(s) /\ s \notin taken]_vars
  BY NamedIsKept DEF LoopInv, Labelled
<1> QED BY <1>1, InitLoop, NextLoop, PTL DEF ReplSpec, ChosenTitleStands

=============================================================================
