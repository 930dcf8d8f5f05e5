------------------------------ MODULE ChatLoop ------------------------------
(***************************************************************************)
(* The terminal chat of openagent-cli over the gateway WebSocket, for a    *)
(* server without the collaboration API.  Four actors meet here:           *)
(*   - the REPL coroutine (_interactive_loop, _send_message_with_indicator)*)
(*     which blocks the whole event loop while it reads the prompt;        *)
(*   - the send_message task of the turn in flight;                        *)
(*   - the listener task (GatewayClient._listen), which folds frames into  *)
(*     the collector that the turn is waiting on;                          *)
(*   - the gateway, external, at the other end of two FIFO streams.        *)
(* They share one asyncio event loop, modelled by its queue of callbacks   *)
(* that are ready to run: whoever is scheduled first runs first.           *)
(***************************************************************************)
EXTENDS Naturals, Sequences, FiniteSets

CONSTANTS
  Sessions,     \* chat sessions known to the REPL
  MaxTurns,     \* bound: chat messages typed
  MaxPresses,   \* bound: Ctrl-C presses while a turn runs
  MaxInFlight,  \* bound: frames in flight in each direction
  SlowSend,     \* may a send on the socket suspend its task (drain)?
  Malformed     \* may the gateway send a frame the listener cannot handle?

ASSUME SessionsAssumption == IsFiniteSet(Sessions) /\ Sessions # {}
ASSUME BoundsAssumption ==
  /\ MaxTurns \in Nat \ {0}
  /\ MaxPresses \in Nat
  /\ MaxInFlight \in Nat \ {0}
ASSUME EnvironmentAssumption == SlowSend \in BOOLEAN /\ Malformed \in BOOLEAN

VARIABLES
  pc,          \* where the REPL coroutine is: Places
  turns,       \* session of every chat turn begun; the last one is current
  stage,       \* where the send_message task is: Stages
  opened,      \* client._opened_sessions
  pending,     \* client._stream_pending: session -> turn of its collector, 0 if none
  coll,        \* the collector of the current turn
  reply,       \* what the last send_message returned or raised
  future,      \* client._command_future: "none", "waiting" or "done"
  handler,     \* turn whose _on_sigint is installed on the loop, 0 if none
  interrupted, \* turns whose interrupted["v"] is set
  presses,     \* Ctrl-C presses so far
  ready,       \* the event loop's queue of callbacks ready to run
  listener,    \* client._listener_task: "running" or "ended"
  ws,          \* client._ws: "open", "closed" or "none"
  toGw,        \* frames on their way to the gateway
  toClient,    \* frames on their way to the client
  gwOpen,      \* external: sessions the gateway has a StreamSession for
  gwTurn       \* external: the turn the gateway is executing, 0 if none

replVars  == <<pc, turns, handler, interrupted, presses>>
turnVars  == <<stage, opened, reply>>
collVars  == <<pending, coll>>
connVars  == <<listener, ws, future>>
gwVars    == <<gwOpen, gwTurn>>
vars == <<pc, turns, stage, opened, pending, coll, reply, future, handler,
          interrupted, presses, ready, listener, ws, toGw, toClient, gwOpen, gwTurn>>

Turn   == Len(turns)
Active == turns[Turn]        \* session of the current turn

Places == {"prompt", "title", "turn", "command", "gone"}
Stages == {"none", "start", "opening", "sent", "waiting"}
ChatKinds == {"delta", "response", "turn_complete", "error"}
Terminal  == {"turn_complete", "error"}

Callback == [cb : {"main", "turn", "listen", "pipe", "sigint", "intr"},
             owner : Nat,     \* the turn whose closure the callback runs
             pressed : Nat]   \* the turn during which the key was pressed
Wake(cb) == [cb |-> cb, owner |-> 0, pressed |-> 0]

ToGwFrame == [kind : {"open", "text", "interrupt", "command"},
              sid : Sessions, turn : Nat]
ToClientFrame == [kind : ChatKinds \cup {"status", "command_result", "malformed"},
                  sid : Sessions, turn : Nat]

Collector == [done : BOOLEAN, errored : BOOLEAN, folded : SUBSET Nat]
EmptyCollector == [done |-> FALSE, errored |-> FALSE, folded |-> {}]
Reply == [kind : {"none", "response", "error", "raised"}, turn : Nat, folded : SUBSET Nat]

Init ==
  /\ pc = "prompt" /\ turns = <<>> /\ stage = "none"
  /\ opened = {} /\ pending = [s \in Sessions |-> 0] /\ coll = EmptyCollector
  /\ reply = [kind |-> "none", turn |-> 0, folded |-> {}]
  /\ future = "none" /\ handler = 0 /\ interrupted = {} /\ presses = 0
  /\ ready = <<>> /\ listener = "running" /\ ws = "open"
  /\ toGw = <<>> /\ toClient = <<>> /\ gwOpen = {} /\ gwTurn = 0

-----------------------------------------------------------------------------
(* The REPL coroutine.  At "prompt" it sits in a blocking Prompt.ask, so   *)
(* these actions run straight through to the next await.                   *)

LoopRuns == pc \notin {"prompt", "gone"} /\ ready # <<>>
Running(cb) == LoopRuns /\ Head(ready).cb = cb
Scheduled(cb) == \E i \in DOMAIN ready : ready[i].cb = cb
Frame(k, s, t) == [kind |-> k, sid |-> s, turn |-> t]

\* ensure_future(send_message(...)) and add_signal_handler for turn t.
StartTurn(t, queue) ==
  /\ pc' = "turn" /\ stage' = "start" /\ handler' = t
  /\ ready' = Append(queue, Wake("turn"))

\* The user sends a chat message; a placeholder session is first renamed, or
\* files are first uploaded, over HTTP.
UserMessage(s) ==
  /\ pc = "prompt" /\ Turn < MaxTurns
  /\ turns' = Append(turns, s)
  /\ \/ StartTurn(Turn + 1, ready)
     \/ pc' = "title" /\ UNCHANGED <<stage, handler, ready>>
  /\ UNCHANGED <<opened, reply, interrupted, presses, collVars, connVars,
                 toGw, toClient, gwVars>>

\* A pass-through slash command.  On a closed socket send_json raises, the
\* REPL prints "Command failed" and asks again.
UserCommand(s) ==
  /\ pc = "prompt" /\ ws = "open" /\ Len(toGw) < MaxInFlight
  /\ toGw' = Append(toGw, Frame("command", s, 0))
  /\ future' = "waiting" /\ pc' = "command"
  /\ UNCHANGED <<turns, handler, interrupted, presses, turnVars, collVars, ready,
                 listener, ws, toClient, gwVars>>

\* A typed /stop: an interrupt frame between turns.
UserStop(s) ==
  /\ pc = "prompt" /\ ws = "open" /\ Len(toGw) < MaxInFlight
  /\ toGw' = Append(toGw, Frame("interrupt", s, 0))
  /\ UNCHANGED <<replVars, turnVars, collVars, ready, connVars, toClient, gwVars>>

\* /quit, end of file, or Ctrl-C raised at the prompt: disconnect().
UserQuit ==
  /\ pc = "prompt"
  /\ pc' = "gone" /\ listener' = "ended" /\ ws' = "none" /\ future' = "none"
  /\ opened' = {} /\ pending' = [s \in Sessions |-> 0]
  /\ ready' = <<>> /\ toGw' = <<>> /\ toClient' = <<>> /\ gwOpen' = {} /\ gwTurn' = 0
  /\ UNCHANGED <<turns, handler, interrupted, presses, stage, reply, coll>>

\* Ctrl-C while the loop has no SIGINT handler of ours: the REPL coroutine is
\* cancelled, or KeyboardInterrupt leaves the loop; disconnect() is not reached.
\* Until the first turn has replaced asyncio.run's handler this is also what
\* Ctrl-C does at the prompt.
UserAbort ==
  /\ pc \in {"title", "command"} \/ (pc = "prompt" /\ turns = <<>>)
  /\ pc' = "gone" /\ future' = "none" /\ ready' = <<>>
  /\ UNCHANGED <<turns, handler, interrupted, presses, turnVars, collVars, listener,
                 ws, toGw, toClient, gwVars>>

\* Ctrl-C during a turn: the byte lands in the loop's self-pipe.
PressCtrlC ==
  /\ pc = "turn" /\ handler # 0 /\ presses < MaxPresses
  /\ presses' = presses + 1
  /\ ready' = Append(ready, [cb |-> "pipe", owner |-> 0, pressed |-> Turn])
  /\ UNCHANGED <<pc, turns, handler, interrupted, turnVars, collVars, connVars,
                 toGw, toClient, gwVars>>

\* The HTTP request before the turn is answered (or fails, which is ignored).
HttpAnswered ==
  /\ pc = "title" /\ ~Scheduled("main")
  /\ ready' = Append(ready, Wake("main"))
  /\ UNCHANGED <<replVars, turnVars, collVars, connVars, toGw, toClient, gwVars>>

\* The REPL coroutine resumes after an await.  A turn that raised ends the
\* program: nothing in the loop catches it.
RunMain ==
  /\ Running("main")
  /\ \/ /\ pc = "title"
        /\ StartTurn(Turn, Tail(ready))
        /\ UNCHANGED future
     \/ /\ pc = "turn"
        /\ pc' = IF reply.kind = "raised" THEN "gone" ELSE "prompt"
        /\ handler' = 0 /\ ready' = Tail(ready)
        /\ UNCHANGED <<stage, future>>
     \/ /\ pc = "command"
        /\ pc' = "prompt" /\ future' = "none" /\ ready' = Tail(ready)
        /\ UNCHANGED <<stage, handler>>
  /\ UNCHANGED <<turns, interrupted, presses, opened, reply, collVars, listener, ws,
                 toGw, toClient, gwVars>>

-----------------------------------------------------------------------------
(* The send_message task of the current turn.  After each send it goes     *)
(* straight on, or, with SlowSend, is suspended until the socket drains.   *)

SentOrSuspended == \/ ready' = ready
                   \/ SlowSend /\ ready' = Tail(ready)

\* The task is over: its last callback wakes the REPL coroutine.
EndTurn(kind, frames) ==
  /\ reply' = [kind |-> kind, turn |-> Turn, folded |-> frames]
  /\ stage' = "none"
  /\ ready' = Append(Tail(ready), Wake("main"))

\* Leaving send_message pops the collector; entering it makes a new one.
StillRegistered == pending
Deregistered == [pending EXCEPT ![Active] = 0]
KeptCollector == coll
NewCollector == EmptyCollector
ForgetOpened == UNCHANGED opened
MarkOpened == opened' = opened \cup {Active}

\* First use of the session on this socket: session_open.
SendOpen ==
  /\ Running("turn") /\ stage = "start" /\ Active \notin opened
  /\ \/ /\ ws = "open"
        /\ toGw' = Append(toGw, Frame("open", Active, Turn))
        /\ stage' = "opening" /\ SentOrSuspended
        /\ UNCHANGED reply
     \/ /\ ws # "open"
        /\ EndTurn("raised", {})
        /\ UNCHANGED toGw
  /\ UNCHANGED <<replVars, opened, collVars, connVars, toClient, gwVars>>

\* A fresh collector is registered before the text goes out; if the send
\* raises it is removed again.
SendText ==
  /\ Running("turn")
  /\ \/ stage = "start" /\ Active \in opened
     \/ stage = "opening"
  /\ MarkOpened
  /\ coll' = NewCollector
  /\ \/ /\ ws = "open"
        /\ toGw' = Append(toGw, Frame("text", Active, Turn))
        /\ pending' = [pending EXCEPT ![Active] = Turn]
        /\ stage' = "sent" /\ SentOrSuspended
        /\ UNCHANGED reply
     \/ /\ ws # "open"
        /\ pending' = Deregistered
        /\ EndTurn("raised", {})
        /\ UNCHANGED toGw
  /\ UNCHANGED <<replVars, connVars, toClient, gwVars>>

\* The drain after the text failed because the connection was lost.
TextSendFailed ==
  /\ Running("turn") /\ stage = "sent" /\ SlowSend /\ ws # "open"
  /\ pending' = Deregistered
  /\ EndTurn("raised", {})
  /\ UNCHANGED <<replVars, opened, coll, connVars, toGw, toClient, gwVars>>

\* await collector.done.wait()
AwaitDone ==
  /\ Running("turn") /\ stage = "sent" /\ ~coll.done
  /\ stage' = "waiting" /\ ready' = Tail(ready)
  /\ UNCHANGED <<replVars, opened, reply, collVars, connVars, toGw, toClient, gwVars>>

\* done is set: the collector is removed and its reply returned.
TurnDone ==
  /\ Running("turn") /\ stage \in {"sent", "waiting"} /\ coll.done
  /\ pending' = Deregistered
  /\ EndTurn(IF coll.errored THEN "error" ELSE "response", coll.folded)
  /\ UNCHANGED <<replVars, opened, coll, connVars, toGw, toClient, gwVars>>

\* The socket drained: the suspended task is ready again.
Drained ==
  /\ pc = "turn" /\ stage \in {"opening", "sent"}
  /\ ~Scheduled("turn")
  /\ ready' = Append(ready, Wake("turn"))
  /\ UNCHANGED <<replVars, turnVars, collVars, connVars, toGw, toClient, gwVars>>

-----------------------------------------------------------------------------
(* Ctrl-C: self-pipe, then _on_sigint of the handler installed at that     *)
(* moment, then the send_interrupt task it creates.                        *)

RunPipe ==
  /\ Running("pipe")
  /\ ready' = IF handler = 0 THEN Tail(ready)
              ELSE Append(Tail(ready), [cb |-> "sigint", owner |-> handler,
                                        pressed |-> Head(ready).pressed])
  /\ UNCHANGED <<replVars, turnVars, collVars, connVars, toGw, toClient, gwVars>>

RunSigintTooLate ==
  /\ Running("sigint")
  /\ interrupted' = interrupted \cup {Head(ready).owner}
  /\ ready' = Tail(ready)
  /\ UNCHANGED <<pc, turns, handler, presses, turnVars, collVars, connVars,
                 toGw, toClient, gwVars>>
RunSigint ==
  /\ Running("sigint")
  /\ LET c == Head(ready) IN
       /\ interrupted' = interrupted \cup {c.owner}
       /\ ready' = IF c.owner \in interrupted THEN Tail(ready)
                   ELSE Append(Tail(ready), [c EXCEPT !.cb = "intr"])
  /\ UNCHANGED <<pc, turns, handler, presses, turnVars, collVars, connVars,
                 toGw, toClient, gwVars>>

\* The frame names the session of the turn that installed the handler.
RunInterrupt ==
  /\ Running("intr")
  /\ LET c == Head(ready) IN
       toGw' = IF ws = "open" THEN Append(toGw, Frame("interrupt", turns[c.owner], c.pressed))
               ELSE toGw
  /\ ready' = Tail(ready)
  /\ UNCHANGED <<replVars, turnVars, collVars, connVars, toClient, gwVars>>

-----------------------------------------------------------------------------
(* The listener task. *)

\* The loop sees the socket readable.
Readable ==
  /\ pc \notin {"prompt", "gone"} /\ listener = "running"
  /\ toClient # <<>> \/ ws = "closed"
  /\ ~Scheduled("listen")
  /\ ready' = Append(ready, Wake("listen"))
  /\ UNCHANGED <<replVars, turnVars, collVars, connVars, toGw, toClient, gwVars>>

\* _fold_wire_frame, and done.set() on a terminal frame.
FoldEndingOnResponse(c, f) ==
  [done    |-> c.done \/ f.kind \in Terminal \cup {"response"},
   errored |-> c.errored \/ f.kind = "error",
   folded  |-> c.folded \cup {f.turn}]
Fold(c, f) == [done    |-> c.done \/ f.kind \in Terminal,
               errored |-> c.errored \/ f.kind = "error",
               folded  |-> c.folded \cup {f.turn}]

\* The queue once done is set: the waiting task, if it waits, becomes ready.
WakeTurn(queue) == IF stage = "waiting" THEN Append(queue, Wake("turn")) ELSE queue
\* The listener goes on with the frames already buffered or yields to the loop.
Rest == {Tail(ready)} \cup (IF Len(toClient) > 1 THEN {ready} ELSE {})

\* The collector registered for a session, if any, is that of the current turn.
Registered(s) == Turn # 0 /\ pending[s] = Turn
Routed(f) == f.kind \in ChatKinds /\ Registered(f.sid)

ListenFrame ==
  /\ Running("listen") /\ toClient # <<>> /\ Head(toClient).kind # "malformed"
  /\ toClient' = Tail(toClient)
  /\ LET f == Head(toClient) IN
       \E rest \in Rest :
         \/ /\ Routed(f)
            /\ coll' = Fold(coll, f)
            /\ ready' = IF coll'.done /\ ~coll.done THEN WakeTurn(rest) ELSE rest
            /\ UNCHANGED future
         \/ /\ f.kind = "command_result" /\ future = "waiting"
            /\ future' = "done" /\ ready' = Append(rest, Wake("main"))
            /\ UNCHANGED coll
         \/ /\ ~Routed(f) /\ ~(f.kind = "command_result" /\ future = "waiting")
            /\ ready' = rest
            /\ UNCHANGED <<coll, future>>
  /\ UNCHANGED <<replVars, turnVars, pending, listener, ws, toGw, gwVars>>

\* The listener's finally: every collector still registered is released with
\* an error, the command future gets an exception.
LeaveTurnWaiting ==
  /\ listener' = "ended" /\ UNCHANGED coll
  /\ future' = IF future = "waiting" THEN "done" ELSE future
  /\ ready' = IF future = "waiting" THEN Append(Tail(ready), Wake("main")) ELSE Tail(ready)
LeaveCommandWaiting ==
  LET strand == ~coll.done /\ \E s \in Sessions : Registered(s)
  IN /\ listener' = "ended" /\ UNCHANGED future
     /\ coll' = IF strand THEN [coll EXCEPT !.done = TRUE, !.errored = TRUE] ELSE coll
     /\ ready' = IF strand THEN WakeTurn(Tail(ready)) ELSE Tail(ready)
ReleaseWaiters ==
  LET strand == ~coll.done /\ \E s \in Sessions : Registered(s)
      wokenTurn == IF strand THEN WakeTurn(Tail(ready)) ELSE Tail(ready)
  IN /\ listener' = "ended"
     /\ coll' = IF strand THEN [coll EXCEPT !.done = TRUE, !.errored = TRUE] ELSE coll
     /\ future' = IF future = "waiting" THEN "done" ELSE future
     /\ ready' = IF future = "waiting" THEN Append(wokenTurn, Wake("main")) ELSE wokenTurn

ListenEnd ==
  /\ Running("listen")
  /\ \/ toClient = <<>> /\ ws = "closed" /\ UNCHANGED toClient
     \/ toClient # <<>> /\ Head(toClient).kind = "malformed" /\ toClient' = Tail(toClient)
  /\ ReleaseWaiters
  /\ UNCHANGED <<replVars, turnVars, pending, ws, toGw, gwVars>>

-----------------------------------------------------------------------------
(* The gateway and the network: external. *)

Emit(k, s, t) == toClient' = Append(toClient, Frame(k, s, t))

GwReceive ==
  /\ ws = "open" /\ toGw # <<>>
  /\ LET f == Head(toGw)
         stops == gwTurn # 0 /\ turns[gwTurn] = f.sid
     IN \/ /\ f.kind = "open" /\ gwOpen' = gwOpen \cup {f.sid}
           /\ UNCHANGED <<gwTurn, toClient>>
        \/ /\ f.kind = "text" /\ gwTurn = 0 /\ gwTurn' = f.turn
           /\ UNCHANGED <<gwOpen, toClient>>
        \/ /\ f.kind = "interrupt" /\ stops
           /\ Emit("turn_complete", f.sid, gwTurn)
           /\ gwTurn' = 0 /\ UNCHANGED gwOpen
        \/ /\ f.kind = "interrupt" /\ ~stops
           /\ UNCHANGED <<gwOpen, gwTurn, toClient>>
        \/ /\ f.kind = "command" /\ Emit("command_result", f.sid, 0)
           /\ UNCHANGED <<gwOpen, gwTurn>>
  /\ toGw' = Tail(toGw)
  /\ UNCHANGED <<replVars, turnVars, collVars, ready, connVars>>

\* A frame of the turn under way that does not end it.
GwProgress ==
  /\ ws = "open" /\ gwTurn # 0 /\ Len(toClient) < MaxInFlight
  /\ \E k \in {"delta", "response", "status"} : Emit(k, turns[gwTurn], gwTurn)
  /\ UNCHANGED <<replVars, turnVars, collVars, ready, connVars, toGw, gwVars>>

\* The turn ends: turn_complete, or an error in its place.
GwFinish ==
  /\ ws = "open" /\ gwTurn # 0
  /\ \E k \in Terminal : Emit(k, turns[gwTurn], gwTurn)
  /\ gwTurn' = 0
  /\ UNCHANGED <<replVars, turnVars, collVars, ready, connVars, toGw, gwOpen>>

GwMalformed ==
  /\ Malformed /\ ws = "open" /\ Len(toClient) < MaxInFlight
  /\ \E s \in Sessions : Emit("malformed", s, 0)
  /\ UNCHANGED <<replVars, turnVars, collVars, ready, connVars, toGw, gwVars>>

\* The connection drops; some of the frames in flight may still arrive.
ConnectionLost ==
  /\ ws = "open" /\ pc # "gone"
  /\ ws' = "closed" /\ toGw' = <<>> /\ gwOpen' = {} /\ gwTurn' = 0
  /\ \E n \in 0..Len(toClient) : toClient' = SubSeq(toClient, 1, n)
  /\ UNCHANGED <<replVars, turnVars, collVars, ready, listener, future>>

-----------------------------------------------------------------------------
User == \/ \E s \in Sessions : UserMessage(s) \/ UserCommand(s) \/ UserStop(s)
        \/ UserQuit \/ UserAbort \/ PressCtrlC

Loop == \/ RunMain \/ SendOpen \/ SendText \/ TextSendFailed \/ AwaitDone \/ TurnDone
        \/ RunPipe \/ RunSigint \/ RunInterrupt \/ ListenFrame \/ ListenEnd

Gateway == GwReceive \/ GwProgress \/ GwFinish \/ GwMalformed \/ ConnectionLost

Next == User \/ HttpAnswered \/ Drained \/ Readable \/ Loop \/ Gateway

Spec == Init /\ [][Next]_vars

\* The event loop runs what is ready and polls its sockets; the gateway reads
\* what it is sent.  It owes nobody the end of a turn.
Fairness == /\ WF_vars(Loop) /\ WF_vars(Readable) /\ WF_vars(Drained)
            /\ WF_vars(HttpAnswered) /\ WF_vars(GwReceive)

FairSpec == Spec /\ Fairness
-----------------------------------------------------------------------------
(* What the code promises. *)

TypeOK ==
  /\ pc \in Places /\ turns \in Seq(Sessions) /\ stage \in Stages
  /\ opened \subseteq Sessions /\ pending \in [Sessions -> 0..Turn] /\ coll \in Collector
  /\ reply \in Reply /\ future \in {"none", "waiting", "done"}
  /\ handler \in 0..Turn /\ interrupted \subseteq 1..Turn /\ presses \in 0..MaxPresses
  /\ ready \in Seq(Callback)
  /\ \A i \in DOMAIN ready : ready[i].cb \in {"sigint", "intr"} => ready[i].owner \in 1..Turn
  /\ listener \in {"running", "ended"}
  /\ ws \in {"open", "closed", "none"}
  /\ toGw \in Seq(ToGwFrame) /\ toClient \in Seq(ToClientFrame)
  /\ gwOpen \subseteq Sessions /\ gwTurn \in 0..Turn

\* What send_message returns was folded from frames of its own turn: no frame
\* of an earlier turn is still on its way when the next collector is
\* registered under the same session (_stream_pending, send_message).
ReplyIsOwn == reply.folded \subseteq {reply.turn}

\* The gateway is sent session_open for a session once on this socket, and
\* before the first text of that session (_opened_sessions).
SessionsOpenOnce ==
  \A i \in DOMAIN toGw : LET f == toGw[i] IN
    /\ f.kind = "open" => /\ f.sid \notin gwOpen
                          /\ \A j \in DOMAIN toGw :
                               toGw[j].kind = "open" /\ toGw[j].sid = f.sid => j = i
    /\ f.kind = "text" => \/ f.sid \in gwOpen
                          \/ \E j \in 1..(i-1) : toGw[j].kind = "open" /\ toGw[j].sid = f.sid

\* A collector is registered only while its own turn runs: every way out of
\* send_message removes it (the except and finally clauses).
NoCollectorLeft ==
  \A s \in Sessions : pending[s] # 0 =>
    pc = "turn" /\ stage \in {"sent", "waiting"} /\ pending[s] = Turn /\ s = Active

\* "First Ctrl-C: ask the server to cancel THIS turn": an interrupt stops only
\* the turn during which the key was pressed.
InterruptStopsItsTurn ==
  (toGw # <<>> /\ Head(toGw).kind = "interrupt" /\ gwTurn # 0 /\ turns[gwTurn] = Head(toGw).sid)
    => Head(toGw).turn = gwTurn

\* The same of the first Ctrl-C while the reply is awaited with the listener
\* running, whatever the gateway does short of not reading.
WaitingTurnIsInterruptible ==
  (/\ pc = "turn" /\ stage = "waiting" /\ listener = "running" /\ Turn \notin interrupted
   /\ \E i \in DOMAIN ready : ready[i].cb \in {"pipe", "sigint"} /\ ready[i].pressed = Turn)
    ~> pc \in {"prompt", "gone"}

\* Nobody waits for ever on a listener that was running when the wait began: a
\* turn that the gateway has answered, or whose connection or listener is lost,
\* returns, and a slash command gets its result or an exception (_listen's
\* finally).
WaitersAreReleased ==
  /\ (/\ pc = "turn" /\ stage = "waiting" /\ listener = "running"
      /\ \/ ws # "open"
         \/ \E i \in DOMAIN toClient : toClient[i].kind \in Terminal \cup {"malformed"})
       ~> pc \in {"prompt", "gone"}
  /\ (pc = "command" /\ listener = "running") ~> pc \in {"prompt", "gone"}

\* What the contract sees: whether the REPL asks, waits or is gone, and the frames
\* of the answer it has printed.
Phase == IF pc \in {"prompt", "command"} THEN "ready"
         ELSE IF pc = "gone" THEN "closed" ELSE "waiting"
Shown == IF Phase = "ready" THEN reply.folded ELSE {}

\* The chat implements the contract of one turn at a time.
Contract == INSTANCE TurnContract WITH asked <- Turn, phase <- Phase, answer <- Shown

ImplementsContract == Contract!Spec

=============================================================================
