----------------------- MODULE SharedTerminal_proofs -----------------------
(***************************************************************************)
(* Proofs about SharedTerminal, for any number of sessions, messages, runs *)
(* and faults, and transcripts of any length.                              *)
(***************************************************************************)
EXTENDS SharedTerminal, TLAPS

Places == {"get", "dial", "open", "dropped", "backoff", "ended"}
Served == [run : Runs \cup {None}, past : SUBSET Runs, text : 0..MaxText, access : BOOLEAN]
Frames == Snapshots \cup {None}

Observers == [at : Places, cancelled : BOOLEAN]
UnderWay == {"ensure", "create", "send", "sent"}
Progress == [at : {"none", "over"} \cup UnderWay, session : Sessions \cup {None}]

TypeOK ==
  /\ repl \in {"switch", "joining", "reading", "stopping", "closing", "closed"}
  /\ active \in Sessions /\ session \in Sessions \cup {None}
  /\ obs \in [Sessions -> Observers]
  /\ states \in Snapshots \cup {None} /\ printed \in 0..MaxText /\ shown \in Nat
  /\ wire \in [Sessions -> Seq(Frames)]
  /\ task \in [Messages -> Progress]
  /\ server \in [Sessions -> Served]
  /\ stops \subseteq Sessions \X Runs
  /\ faults \in 0..MaxFaults

\* The prompt is read in the view of the session it shows, and what was typed is
\* for a session.
Placed ==
  /\ repl # "switch" => session \in Sessions
  /\ repl = "reading" => session = active
  /\ \A m \in Messages : task[m].at \in UnderWay => task[m].session \in Sessions

-----------------------------------------------------------------------------
(* What the observer may still be told.                                    *)

\* A run that a snapshot names is one the session had.
Named(r, s) == r # None => r \in server[s].past

RunsPast == \A s \in Sessions : Named(server[s].run, s)

\* The snapshots under way tell of a transcript that only grows: none is behind
\* what is printed, or behind the one before it, or ahead of the server.
Within(x, s) == Named(x.run, s) /\ printed <= x.text /\ x.text <= server[s].text
InOrder(x, y) == x # None /\ y # None => x.text <= y.text

Ascending(q, s) ==
  /\ \A i \in DOMAIN q : q[i] # None => Within(q[i], s)
  /\ \A i, j \in DOMAIN q : i <= j => InOrder(q[i], q[j])

Viewed == session # None =>
  /\ shown = printed /\ printed <= server[session].text
  /\ states # None => Named(states.run, session)
  /\ Ascending(wire[session], session)

\* Nothing is printed or under way before the history of commands has been read.
Unread == \A s \in Sessions : obs[s].at = "get" => printed = 0 /\ wire[s] = <<>>

TerminalInv == /\ TypeOK /\ Placed /\ OneObserver /\ RunsPast /\ Viewed /\ Unread
               /\ StopNamesOwnRun
-----------------------------------------------------------------------------
(* Types.                                                                  *)

\* A snapshot is one of its session, and no snapshot is "no access".
LEMMA Snapped ==
  ASSUME TypeOK, NEW s \in Sessions
  PROVE  Snapshot(s) \in Snapshots /\ Current(s) \in Frames
<1>1. Snapshot(s) \in Snapshots
  BY DEF TypeOK, Snapshot, Snapshots, Served
<1> QED BY <1>1 DEF Current, Frames

\* Moving one observer keeps the observers well formed.
LEMMA Moved ==
  ASSUME TypeOK, NEW s \in Sessions, NEW place \in Places, Goto(s, place)
  PROVE  /\ obs' \in [Sessions -> Observers]
         /\ obs'[s].at = place
         /\ \A t \in Sessions : t # s => obs'[t] = obs[t]
BY DEF TypeOK, Observers, Goto

\* So does cancelling one.
LEMMA Cancelling ==
  ASSUME TypeOK, NEW s \in Sessions, obs' = [obs EXCEPT ![s].cancelled = TRUE]
  PROVE  obs' \in [Sessions -> Observers] /\ \A t \in Sessions : obs'[t].at = obs[t].at
<1>1. /\ obs' = [obs EXCEPT ![s] = [obs[s] EXCEPT !.cancelled = TRUE]]
      /\ obs[s] \in Observers
  BY DEF TypeOK
<1>2. /\ [obs[s] EXCEPT !.cancelled = TRUE] \in Observers
      /\ [obs[s] EXCEPT !.cancelled = TRUE].at = obs[s].at
  BY <1>1 DEF Observers
<1> QED BY <1>1, <1>2 DEF TypeOK

\* A run begins in one session at most; the former runs are kept.
LEMMA Begun ==
  ASSUME TypeOK, RunsPast, NEW s \in Sessions, NEW r \in Runs, server' = Begin(s, r)
  PROVE  /\ server' \in [Sessions -> Served] /\ RunsPast'
         /\ \A t \in Sessions : /\ server[t].past \subseteq server'[t].past
                                /\ server[t].text <= server'[t].text
<1>1. \A t \in Sessions : server[t] \in Served
  BY DEF TypeOK
<1>2. \A t \in Sessions : server[t].text \in Nat
  BY <1>1, TerminalAssumption DEF Served
<1>3. CASE server' = server
  BY <1>2, <1>3 DEF TypeOK, RunsPast, Named
<1>4. CASE server' = [server EXCEPT ![s] = [run |-> r, past |-> server[s].past \cup {r},
                                           text |-> server[s].text, access |-> server[s].access]]
  <2>1. server'[s] = [run |-> r, past |-> server[s].past \cup {r}, text |-> server[s].text, access |-> server[s].access]
    BY <1>4 DEF TypeOK
  <2>2. \A t \in Sessions : t # s => server'[t] = server[t]
    BY <1>4 DEF TypeOK
  <2>3. server'[s] \in Served
    BY <1>1, <2>1 DEF Served
  <2>4. server' \in [Sessions -> Served]
    BY <1>4, <2>1, <2>3 DEF TypeOK
  <2> QED BY <1>2, <2>1, <2>2, <2>4 DEF RunsPast, Named
<1>5. [server EXCEPT ![s].run = r, ![s].past = @ \cup {r}]
        = [server EXCEPT ![s] = [run |-> r, past |-> server[s].past \cup {r},
                                 text |-> server[s].text, access |-> server[s].access]]
  <2> DEFINE one == [server EXCEPT ![s].run = r]
  <2>1. /\ one = [server EXCEPT ![s] = [server[s] EXCEPT !.run = r]]
        /\ one[s] = [server[s] EXCEPT !.run = r] /\ DOMAIN one = Sessions
    BY DEF TypeOK
  <2>2. one[s].past = server[s].past
    BY <1>1, <2>1 DEF Served
  <2>3. one[s] = [run |-> r, past |-> server[s].past, text |-> server[s].text, access |-> server[s].access]
    <3> DEFINE v == server[s]
    <3>1. v \in Served
      BY <1>1
    <3> HIDE DEF v
    <3>2. [v EXCEPT !.run = r]
            = [run |-> r, past |-> v.past, text |-> v.text, access |-> v.access]
      BY <3>1 DEF Served
    <3> QED BY <2>1, <3>2 DEF v
  <2>4. [one EXCEPT ![s].past = @ \cup {r}]
          = [one EXCEPT ![s] = [one[s] EXCEPT !.past = one[s].past \cup {r}]]
    BY <2>1
  <2>5. [one[s] EXCEPT !.past = one[s].past \cup {r}]
          = [run |-> r, past |-> server[s].past \cup {r}, text |-> server[s].text, access |-> server[s].access]
    BY <2>3
  <2>6. \A e : [one EXCEPT ![s] = e] = [server EXCEPT ![s] = e]
    BY <2>1 DEF TypeOK
  <2> HIDE DEF one
  <2>7. [server EXCEPT ![s].run = r, ![s].past = @ \cup {r}]
          = [one EXCEPT ![s].past = @ \cup {r}]
    BY DEF one
  <2> QED BY <2>4, <2>5, <2>6, <2>7
<1> QED BY <1>3, <1>4, <1>5 DEF Begin

\* What changes the server keeps its former runs and only adds to its transcripts.
LEMMA ServerGrows ==
  ASSUME TypeOK, Placed, RunsPast, [Next]_vars
  PROVE  /\ server' \in [Sessions -> Served] /\ RunsPast'
         /\ \A t \in Sessions : /\ server[t].past \subseteq server'[t].past
                                /\ server[t].text <= server'[t].text
<1>1. /\ \A t \in Sessions : server[t] \in Served
      /\ \A t \in Sessions : server[t].text \in 0..MaxText /\ server[t].text \in Nat
  <2>1. \A t \in Sessions : server[t] \in Served
    BY DEF TypeOK
  <2> QED BY <2>1, TerminalAssumption DEF Served
<1>2. CASE UNCHANGED server
  BY <1>1, <1>2 DEF TypeOK, RunsPast, Named
<1>3. CASE Stopped
  <2>1. \A t \in Sessions :
          server'[t] = server[t] \/ server'[t] = [server[t] EXCEPT !.run = None]
    BY <1>3 DEF Stopped
  <2>2. \A t \in Sessions : /\ server'[t] \in Served /\ server'[t].past = server[t].past
                            /\ server'[t].text = server[t].text
                            /\ server'[t].run \in {server[t].run, None}
    BY <1>1, <2>1 DEF Served
  <2>3. server' \in [Sessions -> Served]
    BY <1>3, <2>2 DEF Stopped
  <2> QED BY <1>1, <2>2, <2>3 DEF RunsPast, Named
<1>4. ASSUME NEW m \in Messages, Arrives(m)
      PROVE  server' = Begin(task[m].session, m) /\ task[m].session \in Sessions /\ m \in Runs
  BY <1>4 DEF Arrives, Placed, Runs, UnderWay
<1>5. ASSUME NEW s \in Sessions, Writes(s)
      PROVE  /\ server' \in [Sessions -> Served] /\ RunsPast'
             /\ \A t \in Sessions : /\ server[t].past \subseteq server'[t].past
                                    /\ server[t].text <= server'[t].text
  <2>1. CASE server[s].text < MaxText /\ server' = [server EXCEPT ![s].text = @ + 1]
    <3>1. /\ server' = [server EXCEPT ![s] = [server[s] EXCEPT !.text = @ + 1]]
          /\ server'[s] = [server[s] EXCEPT !.text = @ + 1]
      BY <2>1 DEF TypeOK
    <3>2. \A t \in Sessions : t # s => server'[t] = server[t]
      BY <2>1 DEF TypeOK
    <3>3. server[s].text + 1 \in 0..MaxText /\ server[s].text <= server[s].text + 1
      BY <1>1, <2>1, TerminalAssumption
    <3>4. /\ server'[s] \in Served /\ server'[s].past = server[s].past
          /\ server'[s].run = server[s].run /\ server'[s].text = server[s].text + 1
      BY <1>1, <3>1, <3>3 DEF Served
    <3>5. server' \in [Sessions -> Served]
      BY <3>1, <3>4 DEF TypeOK
    <3> QED BY <1>1, <3>2, <3>3, <3>4, <3>5 DEF RunsPast, Named
  <2>2. CASE server' = [server EXCEPT ![s].run = None]
    <3>1. /\ server' = [server EXCEPT ![s] = [server[s] EXCEPT !.run = None]]
          /\ server'[s] = [server[s] EXCEPT !.run = None]
      BY <2>2 DEF TypeOK
    <3>2. \A t \in Sessions : t # s => server'[t] = server[t]
      BY <2>2 DEF TypeOK
    <3>3. /\ server'[s] \in Served /\ server'[s].past = server[s].past
          /\ server'[s].run = None /\ server'[s].text = server[s].text
      BY <1>1, <3>1 DEF Served
    <3>4. server' \in [Sessions -> Served]
      BY <3>1, <3>3 DEF TypeOK
    <3> QED BY <1>1, <3>2, <3>3, <3>4 DEF RunsPast, Named
  <2> QED BY <1>5, <2>1, <2>2 DEF Writes
<1>9. ASSUME NEW s \in Sessions, Withdraws(s)
      PROVE  /\ server' \in [Sessions -> Served] /\ RunsPast'
             /\ \A t \in Sessions : /\ server[t].past \subseteq server'[t].past
                                    /\ server[t].text <= server'[t].text
  <2>1. PICK access \in BOOLEAN : server' = [server EXCEPT ![s].access = access]
    BY <1>9 DEF Withdraws
  <2>2. /\ server' = [server EXCEPT ![s] = [server[s] EXCEPT !.access = access]]
        /\ server'[s] = [server[s] EXCEPT !.access = access]
    BY <2>1 DEF TypeOK
  <2>3. \A t \in Sessions : t # s => server'[t] = server[t]
    BY <2>1 DEF TypeOK
  <2>4. /\ server'[s] \in Served /\ server'[s].past = server[s].past
        /\ server'[s].run = server[s].run /\ server'[s].text = server[s].text
    BY <1>1, <2>2 DEF Served
  <2>5. server' \in [Sessions -> Served]
    BY <2>2, <2>4 DEF TypeOK
  <2> QED BY <1>1, <2>3, <2>4, <2>5 DEF RunsPast, Named
<1>6. ASSUME NEW r \in Foreign, SomebodyElse(r)
      PROVE  \E s \in Sessions : server' = Begin(s, r)
  BY <1>6 DEF SomebodyElse
<1>7. \/ UNCHANGED server \/ Stopped \/ (\E m \in Messages : Arrives(m))
      \/ (\E s \in Sessions : Writes(s) \/ Withdraws(s)) \/ (\E r \in Foreign : SomebodyElse(r))
  BY DEF Next, vars, Switch, SwitchStays, SwitchCancels, SwitchAttaches, Closed,
         ChooseSession, Stop, Close, Submit, Task, Ensured, TaskFails, Answered, Observer, Works,
         HistoryRead, Observing, Frame, BackOff, Redial, ObserverCancelled, HistoryFails,
         Refused, SocketDrops, DialFails, Sends
<1>8. \A r \in Foreign : r \in Runs
  BY DEF Runs
<1> QED BY <1>2, <1>3, <1>4, <1>5, <1>6, <1>7, <1>8, <1>9, Begun

\* A message's task moves by itself, and keeps the session it was typed for.
LEMMA Tasked ==
  ASSUME TypeOK, Placed, NEW m \in Messages, Submit(m) \/ Task(m) \/ Arrives(m)
  PROVE  /\ task' \in [Messages -> Progress]
         /\ \A n \in Messages : task'[n].at \in UnderWay => task'[n].session \in Sessions
<1>1. CASE Submit(m)
  <2>1. task' = [task EXCEPT ![m] = [at |-> "ensure", session |-> active]]
    BY <1>1 DEF Submit
  <2>2. [at |-> "ensure", session |-> active] \in Progress
    BY DEF TypeOK, Progress, UnderWay
  <2> QED BY <2>1, <2>2 DEF TypeOK, Placed
<1>2. ASSUME NEW place \in {"create", "send", "sent"}, task[m].at \in UnderWay,
             task' = [task EXCEPT ![m].at = place]
      PROVE  /\ task' \in [Messages -> Progress]
             /\ \A n \in Messages : task'[n].at \in UnderWay => task'[n].session \in Sessions
  <2>1. /\ task' = [task EXCEPT ![m] = [task[m] EXCEPT !.at = place]]
        /\ task'[m] = [task[m] EXCEPT !.at = place] /\ task[m] \in Progress
        /\ \A n \in Messages : n # m => task'[n] = task[n]
    BY <1>2 DEF TypeOK
  <2>2. task'[m] \in Progress /\ task'[m].session = task[m].session
    BY <2>1 DEF Progress, UnderWay
  <2>3. task' \in [Messages -> Progress]
    BY <2>1, <2>2 DEF TypeOK
  <2>4. task[m].session \in Sessions
    BY <1>2 DEF Placed
  <2> QED BY <2>1, <2>2, <2>3, <2>4 DEF Placed
<1>3. CASE TaskFails(m) \/ Answered(m)
  <2>1. task' = [task EXCEPT ![m] = Over]
    BY <1>3 DEF TaskFails, Answered
  <2>2. Over \in Progress /\ Over.at \notin UnderWay
    BY DEF Over, Progress, UnderWay
  <2> QED BY <2>1, <2>2 DEF TypeOK, Placed
<1>4. CASE Ensured(m) \/ Arrives(m)
  BY <1>2, <1>4 DEF Ensured, Arrives, UnderWay
<1> QED BY <1>1, <1>3, <1>4 DEF Task

\* Rendering keeps the view well formed.
LEMMA Rendered ==
  ASSUME TypeOK, NEW text \in 0..MaxText, Render(text)
  PROVE  printed' \in 0..MaxText /\ shown' \in Nat
<1>1. MaxText \in Nat
  BY TerminalAssumption
<1>2. text \in Nat /\ printed \in Nat /\ shown \in Nat
  BY <1>1 DEF TypeOK
<1> QED BY <1>2 DEF Render

\* Every step keeps the types.
LEMMA TypeStep == TypeOK /\ Placed /\ RunsPast /\ [Next]_vars => TypeOK'
<1> SUFFICES ASSUME TypeOK, Placed, RunsPast, [Next]_vars PROVE TypeOK'
  OBVIOUS
<1>1. server' \in [Sessions -> Served]
  BY ServerGrows
<1>2. /\ MaxText \in Nat /\ 0 \in 0..MaxText /\ <<>> \in Seq(Frames)
      /\ \A s \in Sessions : wire[s] \in Seq(Frames)
  BY TerminalAssumption DEF TypeOK
<1>3. faults < MaxFaults => faults + 1 \in 0..MaxFaults
  BY TerminalAssumption DEF TypeOK
<1>4. CASE Switch
  <2>1. CASE SwitchAttaches
    <3>1. wire' \in [Sessions -> Seq(Frames)]
      BY <1>2, <2>1 DEF SwitchAttaches, TypeOK
    <3>2. /\ repl' = "reading" /\ session' = active
          /\ obs' = [obs EXCEPT ![active] = [at |-> "get", cancelled |-> FALSE]]
          /\ states' = None /\ printed' = 0 /\ shown' = 0
          /\ UNCHANGED <<active, task, server, stops, faults>>
      BY <2>1 DEF SwitchAttaches, Reset, NewView
    <3>3. [at |-> "get", cancelled |-> FALSE] \in Observers
      BY DEF Observers, Places
    <3>4. obs' \in [Sessions -> Observers]
      BY <3>2, <3>3 DEF TypeOK
    <3> QED BY <1>1, <1>2, <3>1, <3>2, <3>4 DEF TypeOK
  <2>2. CASE SwitchStays
    BY <1>1, <2>2 DEF SwitchStays, TypeOK, view
  <2>3. CASE SwitchCancels
    <3>1. session \in Sessions /\ obs' = [obs EXCEPT ![session].cancelled = TRUE]
      BY <2>3 DEF SwitchCancels, TypeOK
    <3>2. obs' \in [Sessions -> Observers]
      BY <3>1, Cancelling
    <3> QED BY <1>1, <2>3, <3>2 DEF SwitchCancels, TypeOK, view
  <2> QED BY <1>4, <2>1, <2>2, <2>3 DEF Switch
<1>5. ASSUME NEW s \in Sessions, Observer(s) PROVE TypeOK'
  <2>1. CASE Observing(s)
    <3>1. PICK q \in {<<Current(s)>>, <<>>} : wire' = [wire EXCEPT ![s] = q]
      BY <2>1 DEF Observing
    <3>2. q \in Seq(Frames)
      <4>1. Current(s) \in Frames
        BY Snapped
      <4>2. <<Current(s)>> \in Seq(Frames)
        BY <4>1
      <4> QED BY <1>2, <3>1, <4>2
    <3>3. wire' \in [Sessions -> Seq(Frames)]
      BY <3>1, <3>2 DEF TypeOK
    <3>4. Goto(s, "open") /\ UNCHANGED <<repl, active, session, view, task, stops, faults>>
      BY <2>1 DEF Observing
    <3> QED BY <1>1, <3>3, <3>4, Moved DEF TypeOK, Places, view
  <2>2. CASE Frame(s)
    <3>1. Head(wire[s]) \in Frames /\ Tail(wire[s]) \in Seq(Frames)
      BY <1>2, <2>2 DEF Frame
    <3>2. wire' = [wire EXCEPT ![s] = Tail(wire[s])]
      BY <2>2 DEF Frame
    <3>3. wire' \in [Sessions -> Seq(Frames)]
      BY <3>1, <3>2 DEF TypeOK
    <3>4. states' \in Frames /\ printed' \in 0..MaxText /\ shown' \in Nat
      <4>1. CASE Head(wire[s]) = None
        BY <1>2, <2>2, <4>1 DEF Frame, NewView, Frames
      <4>2. CASE Head(wire[s]) # None
        <5>1. Head(wire[s]) \in Snapshots
          BY <3>1, <4>2 DEF Frames
        <5>2. Head(wire[s]).text \in 0..MaxText
          BY <5>1 DEF Snapshots
        <5>3. states' = Head(wire[s]) /\ Render(Head(wire[s]).text)
          BY <2>2, <4>2 DEF Frame
        <5> QED BY <3>1, <5>2, <5>3, Rendered
      <4> QED BY <4>1, <4>2
    <3> QED BY <1>1, <2>2, <3>3, <3>4 DEF TypeOK, Frame, Frames
  <2>3. CASE SocketDrops(s)
    <3>1. faults' \in 0..MaxFaults
      BY <1>3, <2>3 DEF SocketDrops, TypeOK
    <3>2. wire' \in [Sessions -> Seq(Frames)]
      BY <1>2, <2>3 DEF SocketDrops, TypeOK
    <3> QED BY <1>1, <2>3, <3>1, <3>2, Moved DEF SocketDrops, TypeOK, Places, view
  <2>4. CASE DialFails(s)
    <3>1. faults' \in 0..MaxFaults
      BY <1>3, <2>4 DEF DialFails, TypeOK
    <3> QED BY <1>1, <2>4, <3>1, Moved DEF DialFails, TypeOK, Places, view
  <2>5. CASE HistoryFails(s)
    <3>1. faults' \in 0..MaxFaults
      BY <1>3, <2>5 DEF HistoryFails, TypeOK
    <3> QED BY <1>1, <2>5, <3>1, Moved DEF HistoryFails, ClearStates, TypeOK, Places
  <2>6. CASE HistoryRead(s)
    <3>1. PICK text \in 0..server[s].text : Render(text)
      BY <2>6 DEF HistoryRead
    <3>2. text \in 0..MaxText
      <4>1. server[s] \in Served
        BY DEF TypeOK
      <4>2. server[s].text \in 0..MaxText
        BY <4>1 DEF Served
      <4> QED BY <1>2, <4>2
    <3>3. printed' \in 0..MaxText /\ shown' \in Nat
      BY <3>1, <3>2, Rendered
    <3>4. /\ Goto(s, "dial") /\ states' = None
          /\ UNCHANGED <<repl, active, session, wire, task, stops, faults>>
      BY <2>6 DEF HistoryRead
    <3> QED BY <1>1, <3>3, <3>4, Moved DEF TypeOK, Places
  <2>8. CASE Refused(s) \/ BackOff(s) \/ Redial(s)
    <3>1. \E place \in Places : Goto(s, place)
      BY <2>8 DEF Refused, BackOff, Redial, Places
    <3>2. obs' \in [Sessions -> Observers]
      BY <3>1, Moved
    <3>3. /\ states' = None
          /\ UNCHANGED <<printed, shown, repl, active, session, wire, task, stops, faults>>
      BY <2>8 DEF Refused, BackOff, Redial, ClearStates
    <3> QED BY <1>1, <3>2, <3>3 DEF TypeOK
  <2>7. CASE ObserverCancelled(s)
    <3>1. wire' \in [Sessions -> Seq(Frames)]
      BY <1>2, <2>7 DEF ObserverCancelled, TypeOK
    <3>2. [at |-> "ended", cancelled |-> FALSE] \in Observers
      BY DEF Observers, Places
    <3>3. obs' \in [Sessions -> Observers]
      BY <2>7, <3>2 DEF ObserverCancelled, TypeOK
    <3> QED BY <1>1, <2>7, <3>1, <3>3 DEF ObserverCancelled, TypeOK, view
  <2> QED BY <1>5, <2>1, <2>2, <2>3, <2>4, <2>5, <2>6, <2>7, <2>8 DEF Observer, Works
<1>6. ASSUME NEW m \in Messages, Submit(m) \/ Task(m) \/ Arrives(m) PROVE TypeOK'
  <2>1. task' \in [Messages -> Progress]
    BY <1>6, Tasked
  <2>2. /\ repl' \in {repl, "switch"}
        /\ UNCHANGED <<active, session, obs, view, wire, stops, faults>>
    BY <1>6 DEF Submit, Task, Ensured, TaskFails, Answered, Arrives
  <2> QED BY <1>1, <2>1, <2>2 DEF TypeOK, view
<1>7. CASE Stop
  <2>1. <<active, states.run>> \in Sessions \X Runs
    BY <1>7 DEF Stop, TypeOK, Snapshots
  <2> QED BY <1>1, <1>7, <2>1 DEF Stop, TypeOK, view
<1>8. CASE Close
  <2>1. /\ obs' = [obs EXCEPT ![session].cancelled = TRUE]
        /\ task' = [m \in Messages |->
                      IF task[m].at \in {"ensure", "create", "send", "sent"}
                      THEN Over ELSE task[m]]
        /\ repl' = "closing" /\ UNCHANGED <<active, session, view, wire, stops, faults>>
    BY <1>8 DEF Close
  <2>2. obs' \in [Sessions -> Observers]
    BY <1>8, <2>1, Cancelling DEF Close, Placed
  <2>3. task' \in [Messages -> Progress]
    <3>1. Over \in Progress /\ \A m \in Messages : task[m] \in Progress
      BY DEF TypeOK, Progress, Over
    <3> QED BY <2>1, <3>1
  <2> QED BY <1>1, <2>1, <2>2, <2>3 DEF TypeOK, view
<1>9. ASSUME NEW s \in Sessions, Sends(s) PROVE TypeOK'
  <2>1. Append(wire[s], Current(s)) \in Seq(Frames)
    BY <1>2, Snapped
  <2> QED BY <1>1, <1>9, <2>1 DEF Sends, TypeOK, view
<1>11. ASSUME NEW s \in Sessions, Withdraws(s) PROVE TypeOK'
  <2>1. faults' \in 0..MaxFaults
    BY <1>3, <1>11 DEF Withdraws, TypeOK
  <2> QED BY <1>1, <1>11, <2>1 DEF Withdraws, TypeOK, view
<1>10. CASE \/ Stopped \/ Closed \/ ChooseSession \/ UNCHANGED vars
            \/ (\E s \in Sessions : Writes(s)) \/ (\E r \in Foreign : SomebodyElse(r))
  BY <1>1, <1>10 DEF Stopped, Closed, ChooseSession, vars, Writes, SomebodyElse, TypeOK, view
<1> QED BY <1>4, <1>5, <1>6, <1>7, <1>8, <1>9, <1>10, <1>11 DEF Next

-----------------------------------------------------------------------------
(* Where the prompt is, and who observes.                                  *)

\* The prompt is only read in the view it has switched to.
LEMMA PlacedStep == TypeOK /\ Placed /\ [Next]_vars => Placed'
<1> SUFFICES ASSUME TypeOK, Placed, [Next]_vars PROVE Placed'
  OBVIOUS
<1>1. CASE Switch
  BY <1>1 DEF Switch, SwitchStays, SwitchCancels, SwitchAttaches, Placed, TypeOK
<1>2. ASSUME NEW m \in Messages, Submit(m) \/ Task(m) \/ Arrives(m) PROVE Placed'
  <2>1. UNCHANGED session /\ (repl' = repl \/ repl' = "switch") /\ UNCHANGED active
    BY <1>2 DEF Submit, Task, Ensured, TaskFails, Answered, Arrives
  <2>2. \A n \in Messages : task'[n].at \in UnderWay => task'[n].session \in Sessions
    BY <1>2, Tasked
  <2> QED BY <2>1, <2>2 DEF Placed
<1>3. CASE Close
  <2>1. session \in Sessions /\ UNCHANGED session /\ repl' = "closing"
    BY <1>3 DEF Close, Placed
  <2>2. \A n \in Messages : task'[n].at \in UnderWay => task'[n].session \in Sessions
    BY <1>3 DEF Close, Placed, TypeOK, Over, UnderWay
  <2> QED BY <2>1, <2>2 DEF Placed
<1>4. CASE ChooseSession \/ Stop \/ Stopped \/ Closed
  BY <1>4 DEF ChooseSession, Stop, Stopped, Closed, Placed
<1>5. CASE UNCHANGED <<repl, active, session, task>>
  BY <1>5 DEF Placed
<1> QED
  BY <1>1, <1>2, <1>3, <1>4, <1>5
     DEF Next, vars, Observer, Works, HistoryRead, Observing, Frame, BackOff, Redial,
         ObserverCancelled, HistoryFails, Refused, SocketDrops, DialFails, Writes, Withdraws, Sends,
         SomebodyElse

\* An observer starts in the view switched to, once the one before it has ended; and
\* one that has ended does nothing more.
LEMMA OneStep == TypeOK /\ OneObserver /\ [Next]_vars => OneObserver'
<1> SUFFICES ASSUME TypeOK, OneObserver, [Next]_vars PROVE OneObserver'
  OBVIOUS
<1>1. CASE SwitchAttaches
  <2>1. \A s \in Sessions : Ended(s)
    BY <1>1, TerminalAssumption
       DEF SwitchAttaches, Joined, OldObserverEnded, OneObserver, Ended, TypeOK
  <2> QED BY <1>1, <2>1 DEF SwitchAttaches, OneObserver, Ended, TypeOK
<1>2. CASE SwitchCancels \/ Close
  BY <1>2 DEF SwitchCancels, Close, OneObserver, Ended, TypeOK
<1>3. ASSUME NEW s \in Sessions, Observer(s) PROVE OneObserver'
  <2>1. ~Ended(s)
    BY <1>3 DEF Observer, Works, HistoryRead, Observing, Frame, BackOff, Redial,
         ObserverCancelled, HistoryFails, Refused, SocketDrops, DialFails, Runnable, Ended
  <2>2. s = session
    BY <2>1 DEF OneObserver
  <2>3. UNCHANGED session /\ \A t \in Sessions : t # s => obs'[t] = obs[t]
    BY <1>3 DEF Observer, Works, HistoryRead, Observing, Frame, BackOff, Redial, Goto,
         ObserverCancelled, HistoryFails, Refused, SocketDrops, DialFails, TypeOK
  <2> QED BY <2>2, <2>3 DEF OneObserver, Ended
<1>4. CASE UNCHANGED <<session, obs>>
  BY <1>4 DEF OneObserver, Ended
<1> QED
  BY <1>1, <1>2, <1>3, <1>4
     DEF Next, vars, Switch, SwitchStays, Stopped, Closed, ChooseSession, Stop, Submit, Task,
         Ensured, TaskFails, Answered, Arrives, Writes, Withdraws, Sends, SomebodyElse

-----------------------------------------------------------------------------
(* What is shown.                                                          *)

\* Lengths of transcripts are numbers.
LEMMA Lengths ==
  ASSUME TypeOK
  PROVE  /\ printed \in Nat /\ shown \in Nat /\ \A s \in Sessions : server[s].text \in Nat
         /\ \A s \in Sessions : wire[s] \in Seq(Frames)
         /\ \A s \in Sessions : \A i \in DOMAIN wire[s] :
              wire[s][i] # None => wire[s][i].text \in Nat
<1>1. MaxText \in Nat
  BY TerminalAssumption
<1>2. \A s \in Sessions : server[s] \in Served
  BY DEF TypeOK
<1>3. \A s \in Sessions : server[s].text \in Nat
  BY <1>1, <1>2 DEF Served
<1>4. \A s \in Sessions : wire[s] \in Seq(Frames)
  BY DEF TypeOK
<1>5. \A s \in Sessions : \A i \in DOMAIN wire[s] : wire[s][i] \in Frames
  BY <1>4
<1>6. \A x \in Frames : x # None => x.text \in Nat
  BY <1>1 DEF Frames, Snapshots
<1>7. printed \in Nat /\ shown \in Nat
  BY <1>1 DEF TypeOK
<1> QED BY <1>3, <1>4, <1>5, <1>6, <1>7

\* What lies ahead of the printed text is rendered whole.
LEMMA RendersOn ==
  ASSUME TypeOK, NEW text \in Nat, Render(text), shown = printed, printed <= text
  PROVE  shown' = printed' /\ printed' = text
BY Lengths DEF Render

\* A view is kept when its frames stay or are lost, whatever the server does.
LEMMA ViewKept ==
  ASSUME TypeOK, Placed, RunsPast, Viewed, [Next]_vars,
         UNCHANGED <<session, printed, shown>>, states' \in {states, None},
         \A s \in Sessions : wire'[s] \in {wire[s], <<>>}
  PROVE  Viewed'
<1> SUFFICES ASSUME session \in Sessions PROVE Viewed'
  BY DEF TypeOK, Viewed
<1>1. /\ server[session].past \subseteq server'[session].past
      /\ server[session].text <= server'[session].text
      /\ server'[session].text \in Nat
  <2>1. server'[session] \in Served
    BY ServerGrows
  <2> QED BY <2>1, ServerGrows, TerminalAssumption DEF Served
<1>2. session # None
  BY TerminalAssumption
<1>3. /\ shown = printed /\ printed <= server[session].text
      /\ states # None => Named(states.run, session)
      /\ Ascending(wire[session], session)
  BY <1>2 DEF Viewed
<1>4. Ascending(wire[session], session)'
  <2>1. CASE wire'[session] = <<>>
    BY <2>1 DEF Ascending
  <2>2. CASE wire'[session] = wire[session]
    <3>1. \A i \in DOMAIN wire[session] :
            wire[session][i] # None /\ wire[session][i].text <= server[session].text =>
            wire[session][i].text <= server'[session].text
      BY <1>1, Lengths
    <3> QED BY <1>1, <1>3, <2>2, <3>1 DEF Ascending, InOrder, Within, Named
  <2> QED BY <2>1, <2>2
<1>5. printed' <= server'[session].text
  BY <1>1, <1>3, Lengths
<1>6. states' # None => Named(states.run, session)' /\ states' = states
  BY <1>1, <1>3 DEF Named
<1> QED BY <1>3, <1>4, <1>5, <1>6 DEF Viewed, Named

\* A frame renders what the transcript has gained, and nothing twice, or forgets it all.
LEMMA FrameViewed ==
  ASSUME TypeOK, OneObserver, Viewed, NEW s \in Sessions, Frame(s)
  PROVE  Viewed'
<1>0. PICK q : q = wire[s]
  OBVIOUS
<1>1. s = session /\ s # None
  BY TerminalAssumption DEF Frame, Runnable, OneObserver, Ended
<1>2. /\ q \in Seq(Frames) /\ q # <<>> /\ \A i \in DOMAIN q : q[i] # None => q[i].text \in Nat
      /\ printed \in Nat /\ server[s].text \in Nat
  BY <1>0, Lengths DEF Frame
<1>3. shown = printed /\ Ascending(q, s)
  BY <1>0, <1>1 DEF Viewed
<1>4. wire'[s] = Tail(q) /\ UNCHANGED <<session, server>>
  BY <1>0 DEF Frame, TypeOK
<1>5. IF Head(q) = None THEN NewView ELSE states' = Head(q) /\ Render(Head(q).text)
  BY <1>0 DEF Frame
<1>6. /\ Head(q) = q[1] /\ 1 \in DOMAIN q
      /\ \A i \in DOMAIN Tail(q) : i \in Nat /\ i + 1 \in DOMAIN q /\ Tail(q)[i] = q[i + 1]
  BY <1>2
<1>7. /\ shown' = printed' /\ printed' <= server[s].text
      /\ states' # None => Named(states'.run, s)
      /\ \A i \in DOMAIN Tail(q) : Tail(q)[i] # None => printed' <= Tail(q)[i].text
  <2>1. CASE q[1] = None
    BY <1>2, <1>5, <1>6, <2>1 DEF NewView
  <2>2. CASE q[1] # None
    <3>1. /\ printed <= q[1].text /\ q[1].text <= server[s].text /\ Named(q[1].run, s)
          /\ q[1].text \in Nat
      BY <1>2, <1>3, <1>6, <2>2 DEF Ascending, Within
    <3>2. shown' = printed' /\ printed' = q[1].text /\ states' = q[1]
      BY <1>3, <1>5, <1>6, <2>2, <3>1, RendersOn
    <3>3. \A i \in Nat : 1 <= i + 1
      OBVIOUS
    <3>4. \A i \in DOMAIN Tail(q) : Tail(q)[i] # None => q[1].text <= Tail(q)[i].text
      BY <1>3, <1>6, <2>2, <3>3 DEF Ascending, InOrder
    <3> QED BY <3>1, <3>2, <3>4
  <2> QED BY <2>1, <2>2
<1>8. \A i \in DOMAIN Tail(q) : Tail(q)[i] # None => Within(Tail(q)[i], s)'
  <2>1. \A i \in DOMAIN Tail(q) : Tail(q)[i] # None =>
          Named(Tail(q)[i].run, s) /\ Tail(q)[i].text <= server[s].text
    BY <1>3, <1>6 DEF Ascending, Within
  <2> QED BY <1>4, <1>7, <2>1 DEF Within, Named
<1>9. \A i, j \in DOMAIN Tail(q) : i <= j => InOrder(Tail(q)[i], Tail(q)[j])
  <2>1. \A i, j \in Nat : i <= j => i + 1 <= j + 1
    OBVIOUS
  <2> QED BY <1>3, <1>6, <2>1 DEF Ascending
<1>10. Ascending(wire[session], session)'
  BY <1>1, <1>4, <1>8, <1>9 DEF Ascending, InOrder, Within, Named
<1> QED BY <1>1, <1>4, <1>7, <1>10 DEF Viewed, Named

\* The history of commands is the first that is rendered.
LEMMA HistoryViewed ==
  ASSUME TypeOK, OneObserver, Viewed, Unread, NEW s \in Sessions, HistoryRead(s)
  PROVE  Viewed'
<1>1. s = session /\ s # None
  BY TerminalAssumption DEF HistoryRead, Runnable, OneObserver, Ended
<1>2. PICK text \in 0..server[s].text : Render(text)
  BY DEF HistoryRead
<1>3. text \in Nat /\ text <= server[s].text /\ printed = 0 /\ shown = printed /\ wire[s] = <<>>
  BY <1>1, <1>2, Lengths DEF Unread, HistoryRead, Runnable, Viewed
<1>4. 0 <= text
  BY <1>3
<1>5. shown' = printed' /\ printed' = text
  BY <1>2, <1>3, <1>4, RendersOn
<1>6. states' = None /\ UNCHANGED <<session, server, wire>>
  BY DEF HistoryRead
<1> QED BY <1>1, <1>3, <1>5, <1>6 DEF Viewed, Ascending

\* A snapshot the server sends is ahead of what it sent before.
LEMMA SendsViewed ==
  ASSUME TypeOK, RunsPast, OneObserver, Viewed, NEW s \in Sessions, Sends(s)
  PROVE  Viewed'
<1> DEFINE q == wire[s]
           r == Append(q, Current(s))
           l == Len(q) + 1
<1>1. s = session /\ s # None
  BY TerminalAssumption DEF Sends, OneObserver, Ended
<1>2. /\ q \in Seq(Frames) /\ \A i \in DOMAIN q : q[i] # None => q[i].text \in Nat
      /\ printed \in Nat /\ server[s].text \in Nat
  BY Lengths
<1>3. shown = printed /\ printed <= server[s].text /\ Ascending(q, s)
  BY <1>1 DEF Viewed
<1>4. wire'[s] = r /\ UNCHANGED <<session, server, view>>
  BY DEF Sends, TypeOK
<1>5. Current(s) # None => Current(s).text = server[s].text /\ Within(Current(s), s)
  BY <1>2, <1>3 DEF Current, Snapshot, RunsPast, Within
<1>6. /\ DOMAIN r = DOMAIN q \cup {l} /\ r[l] = Current(s) /\ l \in Nat /\ l \notin DOMAIN q
      /\ \A i \in DOMAIN q : i \in Nat /\ i < l /\ r[i] = q[i]
  <2>1. q \in Seq(Frames) /\ Current(s) \in Frames
    BY <1>2, Snapped
  <2> HIDE DEF q
  <2> QED BY <2>1
<1> HIDE DEF q, r, l
<1>7. \A i \in DOMAIN r : r[i] # None => Within(r[i], s)
  BY <1>3, <1>5, <1>6 DEF Ascending
<1>8. \A i, j \in DOMAIN r : i <= j => InOrder(r[i], r[j])
  <2> SUFFICES ASSUME NEW i \in DOMAIN r, NEW j \in DOMAIN r, i <= j, r[i] # None, r[j] # None
               PROVE  r[i].text <= r[j].text
    BY DEF InOrder
  <2>1. CASE j = l
    <3>1. r[j].text = server[s].text
      BY <1>5, <1>6, <2>1
    <3> QED BY <1>7, <3>1 DEF Within
  <2>2. CASE j # l
    <3>1. i # l
      BY <1>6, <2>2
    <3> QED BY <1>3, <1>6, <2>2, <3>1 DEF Ascending, InOrder
  <2> QED BY <2>1, <2>2
<1>9. Ascending(wire[session], session)'
  BY <1>1, <1>4, <1>7, <1>8 DEF Ascending, InOrder, Within, Named, view
<1> QED BY <1>1, <1>3, <1>4, <1>9 DEF Viewed, Named, view

\* No step loses its place in the transcript, or learns of a run of another session.
LEMMA ViewedStep ==
  TypeOK /\ Placed /\ OneObserver /\ RunsPast /\ Viewed /\ Unread /\ [Next]_vars => Viewed'
<1> SUFFICES ASSUME TypeOK, Placed, OneObserver, RunsPast, Viewed, Unread, [Next]_vars
             PROVE  Viewed'
  OBVIOUS
<1>1. CASE SwitchAttaches
  <2>1. /\ session' = active /\ active \in Sessions /\ states' = None /\ printed' = 0
        /\ shown' = 0 /\ wire'[active] = <<>> /\ UNCHANGED server
    BY <1>1 DEF SwitchAttaches, Reset, NewView, TypeOK
  <2>2. 0 <= server[active].text
    BY <2>1, Lengths
  <2> QED BY <2>1, <2>2 DEF Viewed, Ascending
<1>2. ASSUME NEW s \in Sessions, Observing(s) PROVE Viewed'
  <2>1. s = session /\ s # None
    BY <1>2, TerminalAssumption DEF Observing, Runnable, OneObserver, Ended
  <2>2. wire'[s] \in {<<Current(s)>>, <<>>} /\ UNCHANGED <<session, server, view>>
    BY <1>2 DEF Observing, TypeOK
  <2>3. printed <= server[s].text /\ server[s].text \in Nat
    BY <2>1, Lengths DEF Viewed
  <2>4. Current(s) # None => Within(Current(s), s)
    BY <2>3 DEF Current, Snapshot, RunsPast, Within
  <2>5. Current(s) # None => Current(s).text <= Current(s).text
    BY <2>3 DEF Current, Snapshot
  <2>6. DOMAIN <<Current(s)>> = {1} /\ <<Current(s)>>[1] = Current(s) /\ DOMAIN <<>> = {}
    OBVIOUS
  <2>7. Ascending(wire'[s], s)
    BY <2>2, <2>4, <2>5, <2>6 DEF Ascending, InOrder
  <2> QED BY <2>1, <2>2, <2>7 DEF Viewed, Ascending, InOrder, Within, Named, view
<1>3. ASSUME NEW s \in Sessions, Frame(s) PROVE Viewed'
  BY <1>3, FrameViewed
<1>7. ASSUME NEW s \in Sessions, HistoryRead(s) PROVE Viewed'
  BY <1>7, HistoryViewed
<1>4. ASSUME NEW s \in Sessions, Sends(s) PROVE Viewed'
  BY <1>4, SendsViewed
<1>5. ASSUME NEW s \in Sessions, SocketDrops(s) \/ ObserverCancelled(s) PROVE Viewed'
  <2>1. \A t \in Sessions : wire'[t] \in {wire[t], <<>>}
    BY <1>5 DEF SocketDrops, ObserverCancelled, TypeOK
  <2> QED BY <1>5, <2>1, ViewKept DEF SocketDrops, ObserverCancelled, view
<1>6. CASE UNCHANGED <<session, printed, shown, wire>> /\ states' \in {states, None}
  BY <1>6, ViewKept
<1> QED
  BY <1>1, <1>2, <1>3, <1>4, <1>5, <1>6, <1>7
     DEF Next, vars, view, Switch, SwitchStays, SwitchCancels, Stopped, Closed, ChooseSession,
         Stop, Close, Submit, Task, Ensured, TaskFails, Answered, Arrives, Observer, Works,
         HistoryFails, BackOff, Redial, Refused, DialFails, ClearStates, Writes,
         Withdraws, SomebodyElse

\* What was read or attached leaves "get" behind; a new view has nothing yet.
LEMMA UnreadStep == TypeOK /\ Placed /\ OneObserver /\ Unread /\ [Next]_vars => Unread'
<1> SUFFICES ASSUME TypeOK, Placed, OneObserver, Unread, [Next]_vars PROVE Unread'
  OBVIOUS
<1>1. CASE SwitchAttaches
  <2>1. \A s \in Sessions : Ended(s)
    BY <1>1, TerminalAssumption
       DEF SwitchAttaches, Joined, OldObserverEnded, OneObserver, Ended, TypeOK
  <2> QED BY <1>1, <2>1 DEF SwitchAttaches, Reset, NewView, Unread, Ended, TypeOK
<1>2. CASE SwitchCancels \/ Close
  <2>1. session \in Sessions /\ obs' = [obs EXCEPT ![session].cancelled = TRUE]
    BY <1>2 DEF SwitchCancels, Close, Placed, TypeOK
  <2>2. \A s \in Sessions : obs'[s].at = obs[s].at
    BY <2>1, Cancelling
  <2> QED BY <1>2, <2>2 DEF SwitchCancels, Close, view, Unread
<1>3. ASSUME NEW s \in Sessions, Observer(s) PROVE Unread'
  <2>1. ~Ended(s)
    BY <1>3 DEF Observer, Works, HistoryRead, Observing, Frame, BackOff, Redial,
         ObserverCancelled, HistoryFails, Refused, SocketDrops, DialFails, Runnable, Ended
  <2>2. \A t \in Sessions : t # s => obs'[t].at = "ended"
    <3>1. \A t \in Sessions : t # s => obs'[t] = obs[t]
      BY <1>3 DEF Observer, Works, HistoryRead, Observing, Frame, BackOff, Redial, Goto,
           ObserverCancelled, HistoryFails, Refused, SocketDrops, DialFails, TypeOK
    <3> QED BY <2>1, <3>1 DEF OneObserver, Ended
  <2>3. obs'[s].at # "get"
    <3>1. CASE Frame(s) \/ ObserverCancelled(s)
      BY <3>1 DEF Frame, Runnable, ObserverCancelled, TypeOK
    <3>2. ASSUME NEW place \in Places \ {"get"}, Goto(s, place) PROVE obs'[s].at # "get"
      BY <3>2, Moved
    <3> QED
      BY <1>3, <3>1, <3>2 DEF Observer, Works, HistoryRead, Observing, BackOff, Redial,
         HistoryFails, Refused, SocketDrops, DialFails, Places
  <2> QED BY <2>2, <2>3 DEF Unread
<1>4. ASSUME NEW s \in Sessions, Sends(s) PROVE Unread'
  BY <1>4 DEF Sends, view, Unread, TypeOK
<1>5. CASE UNCHANGED <<printed, obs, wire>>
  BY <1>5 DEF Unread
<1> QED
  BY <1>1, <1>2, <1>3, <1>4, <1>5
     DEF Next, vars, view, Switch, SwitchStays, Stopped, Closed, ChooseSession, Stop, Submit,
         Task, Ensured, TaskFails, Answered, Arrives, Writes, Withdraws, SomebodyElse

-----------------------------------------------------------------------------
(* The theorems.                                                           *)

\* A stop names a run of the snapshot on the screen, which is of the session.
LEMMA StopsStep ==
  TypeOK /\ Placed /\ RunsPast /\ Viewed /\ StopNamesOwnRun /\ [Next]_vars => StopNamesOwnRun'
<1> SUFFICES ASSUME TypeOK, Placed, RunsPast, Viewed, StopNamesOwnRun, [Next]_vars
             PROVE  StopNamesOwnRun'
  OBVIOUS
<1>1. \A x \in stops : x[1] \in Sessions
  BY DEF TypeOK
<1>2. \A x \in stops : x[2] \in server'[x[1]].past
  BY <1>1, ServerGrows DEF StopNamesOwnRun
<1>3. CASE Stop
  <2>1. session = active /\ session # None /\ states # None /\ states.run # None
    BY <1>3, TerminalAssumption DEF Stop, Placed, TypeOK
  <2>2. states.run \in server[active].past /\ UNCHANGED server
    BY <1>3, <2>1 DEF Stop, Viewed, Named
  <2> QED BY <1>2, <1>3, <2>2 DEF Stop, StopNamesOwnRun
<1>4. CASE stops' \in {stops, {}}
  BY <1>2, <1>4 DEF StopNamesOwnRun
<1> QED
  BY <1>3, <1>4
     DEF Next, vars, Switch, SwitchStays, SwitchCancels, SwitchAttaches, Stopped, Closed,
         ChooseSession, Close, Submit, Task, Ensured, TaskFails, Answered, Arrives, Observer,
         Works, HistoryRead, HistoryFails, Observing, Frame, BackOff, Redial, Refused,
         SocketDrops, DialFails, ObserverCancelled, Writes, Withdraws, Sends, SomebodyElse

\* The invariant holds before the first view is opened.
LEMMA TerminalInit == Init => TerminalInv
<1> SUFFICES ASSUME Init PROVE TerminalInv
  OBVIOUS
<1>1. MaxText \in Nat /\ MaxFaults \in Nat
  BY TerminalAssumption
<1>2. TypeOK
  <2>1. wire \in [Sessions -> Seq(Frames)]
    <3>1. <<>> \in Seq(Frames)
      OBVIOUS
    <3> QED BY <3>1 DEF Init
  <2>2. server \in [Sessions -> Served]
    BY <1>1 DEF Init, Served
  <2>3. faults \in 0..MaxFaults
    BY <1>1 DEF Init
  <2>4. /\ obs \in [Sessions -> Observers]
        /\ task \in [Messages -> Progress]
    <3>1. [at |-> "ended", cancelled |-> FALSE] \in Observers
      BY DEF Observers, Places
    <3>2. [at |-> "none", session |-> None] \in Progress
      BY DEF Progress
    <3> QED BY <3>1, <3>2 DEF Init
  <2>5. 0 \in 0..MaxText /\ 0 \in Nat
    BY <1>1
  <2> QED BY <2>1, <2>2, <2>3, <2>4, <2>5 DEF Init, TypeOK
<1>3. Placed /\ Viewed /\ Unread /\ StopNamesOwnRun
  BY DEF Init, Placed, UnderWay, Viewed, Unread, StopNamesOwnRun
<1>4. OneObserver /\ RunsPast
  BY DEF Init, OneObserver, Ended, RunsPast, Named
<1> QED BY <1>2, <1>3, <1>4 DEF TerminalInv

\* Every step keeps it.
LEMMA TerminalStep == TerminalInv /\ [Next]_vars => TerminalInv'
BY TypeStep, PlacedStep, OneStep, ServerGrows, ViewedStep, UnreadStep, StopsStep DEF TerminalInv

\* The states of the view, its observers, its tasks and the frames under way are
\* well formed (SharedRepl), whatever fails or is lost.
THEOREM TypeCorrect == Spec => []TypeOK
<1>1. TerminalInv => TypeOK
  BY DEF TerminalInv
<1> QED BY <1>1, TerminalInit, TerminalStep, PTL DEF Spec

\* Only the session on the screen has an observer: switch waits for the one it
\* cancels before it starts the next.
THEOREM OnlyTheViewObserves == Spec => []OneObserver
<1>1. TerminalInv => OneObserver
  BY DEF TerminalInv
<1> QED BY <1>1, TerminalInit, TerminalStep, PTL DEF Spec

\* render writes every character of the transcript once per view and grant of access,
\* across any number of lost sockets, snapshots sent again and switches.
THEOREM TextIsWrittenOnce == Spec => []TextWrittenOnce
<1>1. TerminalInv => TextWrittenOnce
  BY DEF TerminalInv, Viewed, TextWrittenOnce
<1> QED BY <1>1, TerminalInit, TerminalStep, PTL DEF Spec

\* /stop never names a run of another session, however old the snapshot is.
THEOREM StopsNameOwnRuns == Spec => []StopNamesOwnRun
<1>1. TerminalInv => StopNamesOwnRun
  BY DEF TerminalInv
<1> QED BY <1>1, TerminalInit, TerminalStep, PTL DEF Spec

=============================================================================
