--------------------------- MODULE SharedTerminal ---------------------------
(***************************************************************************)
(* The shared chat of the CLI: SharedRepl (shared_repl.py), the loop of    *)
(* main.py that drives it, and CollaborationClient (collaboration.py).     *)
(* One coroutine reads the prompt; an observer task per view renders the   *)
(* session while the user types, reconnecting when its socket drops; every *)
(* message typed is sent by a task of its own.  All of them run on one     *)
(* event loop, so a step is what runs from one await to the next.          *)
(*                                                                         *)
(* The server is external: per session it has the run under way, the runs  *)
(* it has had, the length of the transcript, and whether this account may  *)
(* see it.  The transcript only grows; presence, authors, titles (see      *)
(* ReplSessions) and wording are left out.                                 *)
(***************************************************************************)
EXTENDS Naturals, Sequences, FiniteSets

CONSTANTS
  Sessions,      \* sessions of the account
  Messages,      \* what this terminal types; also the request ids, hence run ids
  Foreign,       \* runs started from other terminals
  None,          \* no session, no run, no snapshot
  MaxText,       \* bound: length of a transcript
  MaxInFlight,   \* bound: frames on the way to the observer
  MaxFaults      \* bound: failed or lost observation sockets, failed requests for
                 \*   the command history, and times that access is withdrawn

ASSUME TerminalAssumption ==
  /\ IsFiniteSet(Sessions) /\ IsFiniteSet(Messages) /\ IsFiniteSet(Foreign)
  /\ Messages \cap Foreign = {} /\ None \notin Sessions \cup Messages \cup Foreign
  /\ {MaxText, MaxInFlight, MaxFaults} \subseteq Nat

Runs == Messages \cup Foreign

VARIABLES
  repl,      \* where the prompt loop is
  active,    \* the session it wants to show
  session,   \* SharedRepl.session_id
  obs,       \* the observer task of each session
  states,    \* SharedRepl.states: the last snapshot, or None
  printed,   \* SharedRepl.printed: how much of the transcript was rendered
  shown,     \* characters of it written to the terminal in this view, since it
             \*   was opened or was last told that access to it is withdrawn
  wire,      \* frames on the way to the observer of each session; None: shared_revoked
  task,      \* SharedRepl.tasks: each message's task
  server,    \* external: each session's run, former runs, transcript, access to it
  stops,     \* the stop request under way
  faults     \* faults so far

vars == <<repl, active, session, obs, states, printed, shown, wire, task,
          server, stops, faults>>
view == <<states, printed, shown>>

\* What the server shows of a session: a snapshot, or no access to it.
Snapshot(s) == [session |-> s, run |-> server[s].run, text |-> server[s].text]
Snapshots == [session : Sessions, run : Runs \cup {None}, text : 0..MaxText]
Current(s) == IF server[s].access THEN Snapshot(s) ELSE None

Init ==
  /\ repl = "switch" /\ active \in Sessions /\ session = None
  /\ obs = [s \in Sessions |-> [at |-> "ended", cancelled |-> FALSE]]
  /\ states = None /\ printed = 0 /\ shown = 0
  /\ wire = [s \in Sessions |-> <<>>]
  /\ task = [m \in Messages |-> [at |-> "none", session |-> None]]
  /\ server = [s \in Sessions |-> [run |-> None, past |-> {}, text |-> 0, access |-> TRUE]]
  /\ stops = {} /\ faults = 0

Goto(s, place) == obs' = [obs EXCEPT ![s].at = place]
Ended(s) == obs[s].at = "ended"   \* or never started
-----------------------------------------------------------------------------
(* switch: the loop calls it before every read *)

SwitchStays ==
  /\ repl = "switch" /\ session = active
  /\ repl' = "reading"
  /\ UNCHANGED <<active, session, obs, view, wire, task, server, stops, faults>>

\* observer.cancel(), then wait for it.
SwitchCancels ==
  /\ repl = "switch" /\ session # active /\ session # None
  /\ repl' = "joining" /\ obs' = [obs EXCEPT ![session].cancelled = TRUE]
  /\ UNCHANGED <<active, session, view, wire, task, server, stops, faults>>

NewView == /\ states' = None /\ printed' = 0 /\ shown' = 0

\* Mutants: the previous view's state is kept; the old observer is not awaited.
StaleView == UNCHANGED view
Unawaited == TRUE
OldObserverEnded == session = None \/ Ended(session)

Reset == NewView
Joined == OldObserverEnded

SwitchAttaches ==
  /\ \/ repl = "switch" /\ session = None
     \/ repl = "joining" /\ Joined
  /\ repl' = "reading" /\ session' = active /\ Reset
  /\ obs' = [obs EXCEPT ![active] = [at |-> "get", cancelled |-> FALSE]]
  /\ wire' = [wire EXCEPT ![active] = <<>>]
  /\ UNCHANGED <<active, task, server, stops, faults>>

-----------------------------------------------------------------------------
(* the observer task: SharedRepl.observe over CollaborationClient.observe *)

Runnable(s, place) == obs[s].at = place /\ ~obs[s].cancelled

\* render writes what extends the text already printed.
Render(text) ==
  /\ printed' = text
  /\ shown' = shown + (IF text > printed THEN text - printed ELSE 0)

\* Mutant: a reset also forgets what was printed.
ForgetPrinted == /\ states' = None /\ printed' = 0 /\ UNCHANGED shown
ClearStates == /\ states' = None /\ UNCHANGED <<printed, shown>>

\* The history of commands, requested once, is rendered like a snapshot: it holds
\* some of the transcript.  Any answer but 200 is ignored, as if it held nothing.
HistoryRead(s) ==
  /\ Runnable(s, "get")
  /\ \E text \in 0..server[s].text : (text # 0 => server[s].access) /\ Render(text)
  /\ Goto(s, "dial") /\ states' = None
  /\ UNCHANGED <<repl, active, session, wire, task, server, stops, faults>>

\* No retry around that request: its failure ends the observer.
HistoryFails(s) ==
  /\ Runnable(s, "get") /\ faults < MaxFaults
  /\ faults' = faults + 1
  /\ Goto(s, "ended") /\ ClearStates
  /\ UNCHANGED <<repl, active, session, wire, task, server, stops>>

\* Connected and greeted; the server answers "observe" with a snapshot, or says
\* that there is no access, or nothing.
Observing(s) ==
  /\ Runnable(s, "dial")
  /\ Goto(s, "open")
  /\ \/ wire' = [wire EXCEPT ![s] = <<Current(s)>>]
     \/ ~server[s].access /\ wire' = [wire EXCEPT ![s] = <<>>]
  /\ UNCHANGED <<repl, active, session, view, task, server, stops, faults>>

\* A handshake refused, a greeting that is not ours, authorisation withdrawn.
Refused(s) ==
  /\ \/ Runnable(s, "dial")
     \/ Runnable(s, "open") /\ wire[s] = <<>>
  /\ Goto(s, "ended") /\ ClearStates
  /\ UNCHANGED <<repl, active, session, wire, task, server, stops, faults>>

\* A snapshot is rendered.  shared_revoked forgets what was printed, and the
\* observer goes on: should access be given back, the text is written again.
Frame(s) ==
  /\ Runnable(s, "open") /\ wire[s] # <<>>
  /\ LET frame == Head(wire[s])
     IN  IF frame = None THEN NewView ELSE states' = frame /\ Render(frame.text)
  /\ wire' = [wire EXCEPT ![s] = Tail(@)]
  /\ UNCHANGED <<repl, active, session, obs, task, server, stops, faults>>

\* The socket drops: frames on the way are lost, and the socket's own close is
\* awaited before anything is said of it.
SocketDrops(s) ==
  /\ Runnable(s, "open") /\ faults < MaxFaults
  /\ faults' = faults + 1
  /\ Goto(s, "dropped") /\ wire' = [wire EXCEPT ![s] = <<>>]
  /\ UNCHANGED <<repl, active, session, view, task, server, stops>>

DialFails(s) ==
  /\ Runnable(s, "dial") /\ faults < MaxFaults
  /\ faults' = faults + 1
  /\ Goto(s, "dropped")
  /\ UNCHANGED <<repl, active, session, view, wire, task, server, stops>>

\* "Notify before the backoff"
BackOff(s) ==
  /\ Runnable(s, "dropped")
  /\ Goto(s, "backoff") /\ ClearStates
  /\ UNCHANGED <<repl, active, session, wire, task, server, stops, faults>>

\* Mutant: a connection that was lost is not dialled again.
NeverRedials(s) == FALSE /\ UNCHANGED vars

Redial(s) ==
  /\ Runnable(s, "backoff")
  /\ Goto(s, "dial") /\ ClearStates
  /\ UNCHANGED <<repl, active, session, wire, task, server, stops, faults>>

\* CancelledError at whatever it awaited; the socket is closed on the way out.
ObserverCancelled(s) ==
  /\ obs[s].cancelled /\ ~Ended(s)
  /\ obs' = [obs EXCEPT ![s] = [at |-> "ended", cancelled |-> FALSE]]
  /\ wire' = [wire EXCEPT ![s] = <<>>]
  /\ UNCHANGED <<repl, active, session, view, task, server, stops, faults>>

-----------------------------------------------------------------------------
(* submit and its tasks *)

Over == [at |-> "over", session |-> None]   \* answered, failed or cancelled

Submit(m) ==
  /\ repl = "reading" /\ task[m].at = "none"
  /\ task' = [task EXCEPT ![m] = [at |-> "ensure", session |-> active]]
  /\ repl' = "switch"
  /\ UNCHANGED <<active, session, obs, view, wire, server, stops, faults>>

\* ensure_session: the chat is there, or is made first.
Ensured(m) ==
  /\ \/ task[m].at = "ensure" /\ \E at \in {"create", "send"} : task' = [task EXCEPT ![m].at = at]
     \/ task[m].at = "create" /\ task' = [task EXCEPT ![m].at = "send"]
  /\ UNCHANGED <<repl, active, session, obs, view, wire, server, stops, faults>>

TaskFails(m) ==
  /\ task[m].at \in {"ensure", "create", "send", "sent"}
  /\ task' = [task EXCEPT ![m] = Over]
  /\ UNCHANGED <<repl, active, session, obs, view, wire, server, stops, faults>>

\* The result of the turn.
Answered(m) ==
  /\ task[m].at = "sent"
  /\ \A s \in Sessions : server[s].run # m
  /\ task' = [task EXCEPT ![m] = Over]
  /\ UNCHANGED <<repl, active, session, obs, view, wire, server, stops, faults>>

-----------------------------------------------------------------------------
(* /switch, /new, /stop, leaving *)

ChooseSession ==
  /\ repl = "reading"
  /\ \E s \in Sessions \ {active} : active' = s
  /\ repl' = "switch"
  /\ UNCHANGED <<session, obs, view, wire, task, server, stops, faults>>

\* stop: the last active run of the snapshot, if there is one.
Stop ==
  /\ repl = "reading" /\ states # None /\ states.run # None
  /\ stops' = {<<active, states.run>>}
  /\ repl' = "stopping"
  /\ UNCHANGED <<active, session, obs, view, wire, task, server, faults>>

\* The server stops "only the supplied ID"; the reply brings the prompt back.
Stopped ==
  /\ repl = "stopping" /\ repl' = "switch" /\ stops' = {}
  /\ server' = [s \in Sessions |->
                  IF <<s, server[s].run>> \in stops
                  THEN [server[s] EXCEPT !.run = None] ELSE server[s]]
  /\ UNCHANGED <<active, session, obs, view, wire, task, faults>>

\* Mutant: the observer is awaited without being cancelled.
CloseAwaiting ==
  /\ repl = "reading" /\ repl' = "closing"
  /\ UNCHANGED <<active, session, obs, view, wire, task, server, stops, faults>>

\* /quit or end of input: close() cancels the observer and every task.
Close ==
  /\ repl = "reading" /\ repl' = "closing"
  /\ obs' = [obs EXCEPT ![session].cancelled = TRUE]
  /\ task' = [m \in Messages |->
                IF task[m].at \in {"ensure", "create", "send", "sent"}
                THEN Over ELSE task[m]]
  /\ UNCHANGED <<active, session, view, wire, server, stops, faults>>

Closed ==
  /\ repl = "closing" /\ Ended(session)
  /\ repl' = "closed"
  /\ UNCHANGED <<active, session, obs, view, wire, task, server, stops, faults>>

-----------------------------------------------------------------------------
(* the server: external *)

Begin(s, r) ==
  IF server[s].run = None
  THEN [server EXCEPT ![s].run = r, ![s].past = @ \cup {r}] ELSE server

\* A message arrives: it starts a run, or steers the one under way.
Arrives(m) ==
  /\ task[m].at = "send"
  /\ task' = [task EXCEPT ![m].at = "sent"] /\ server' = Begin(task[m].session, m)
  /\ UNCHANGED <<repl, active, session, obs, view, wire, stops, faults>>

SomebodyElse(r) ==
  /\ \A s \in Sessions : r \notin server[s].past
  /\ \E s \in Sessions : server[s].run = None /\ server' = Begin(s, r)
  /\ UNCHANGED <<repl, active, session, obs, view, wire, task, stops, faults>>

Writes(s) ==
  /\ server[s].run # None
  /\ \/ server[s].text < MaxText /\ server' = [server EXCEPT ![s].text = @ + 1]
     \/ server' = [server EXCEPT ![s].run = None]
  /\ UNCHANGED <<repl, active, session, obs, view, wire, task, stops, faults>>

\* Access to a session is withdrawn, and given back.
Withdraws(s) ==
  /\ \/ /\ server[s].access /\ faults < MaxFaults
        /\ faults' = faults + 1
        /\ server' = [server EXCEPT ![s].access = FALSE]
     \/ ~server[s].access /\ server' = [server EXCEPT ![s].access = TRUE] /\ UNCHANGED faults
  /\ UNCHANGED <<repl, active, session, obs, view, wire, task, stops>>

\* It tells the observer what it shows whenever that differs from what it told last.
LastSent(s) == IF wire[s] # <<>> THEN wire[s][Len(wire[s])] ELSE states
Sends(s) ==
  /\ obs[s].at = "open" /\ Len(wire[s]) < MaxInFlight
  /\ LastSent(s) # Current(s)
  /\ wire' = [wire EXCEPT ![s] = Append(@, Current(s))]
  /\ UNCHANGED <<repl, active, session, obs, view, task, server, stops, faults>>

-----------------------------------------------------------------------------
Switch == SwitchStays \/ SwitchCancels \/ SwitchAttaches

Works(s) == HistoryRead(s) \/ Observing(s) \/ Frame(s) \/ BackOff(s) \/ Redial(s)
            \/ ObserverCancelled(s)
Observer(s) == Works(s) \/ HistoryFails(s) \/ Refused(s) \/ SocketDrops(s)
               \/ DialFails(s)

Task(m) == Ensured(m) \/ TaskFails(m) \/ Answered(m)

Next ==
  \/ Switch \/ Stopped \/ Closed
  \/ ChooseSession \/ Stop \/ Close
  \/ \E m \in Messages : Submit(m) \/ Task(m) \/ Arrives(m)
  \/ \E s \in Sessions : Observer(s) \/ Writes(s) \/ Withdraws(s) \/ Sends(s)
  \/ \E r \in Foreign : SomebodyElse(r)

Spec == Init /\ [][Next]_vars

\* The event loop runs what is ready and the server sends what has changed;
\* nobody has to type, and no run has to end.
Fairness ==
  /\ WF_vars(Switch \/ Stopped \/ Closed)
  /\ \A s \in Sessions : WF_vars(Works(s)) /\ WF_vars(Sends(s))
FairSpec == Spec /\ Fairness
-----------------------------------------------------------------------------

\* "Leaving or changing a view detaches the observer": only the session on the
\* screen has an observer, whatever is switched while frames are arriving.
OneObserver == \A s \in Sessions \ {session} : Ended(s)

\* Every character of the transcript is written once per view, however often the
\* socket is lost and the snapshots are sent again; only when the server has told
\* that access is withdrawn, and gives it back, is it written once more.
TextWrittenOnce == session # None => shown = printed /\ shown <= server[session].text

\* /stop names a run of the session it is sent to, although the snapshot it is
\* read from may be out of date.
StopNamesOwnRun == \A x \in stops : x[2] \in server[x[1]].past

\* "Incoming text and participant names continue rendering while the user types":
\* a view whose observer has not ended comes to show the whole transcript, whatever
\* is lost, however often it dials, and also when access was withdrawn for a while.
ObservedViewCatchesUp ==
  \A s \in Sessions :
    <>[](session = s /\ repl = "reading" /\ ~Ended(s) /\ server[s].access)
      => <>[](shown = server[s].text)

\* Leaving never waits for ever for the tasks and the observer it cancels.
LeavingEnds == repl = "closing" ~> repl = "closed"
=============================================================================
