--------------------------- MODULE TerminalBridge ---------------------------
(***************************************************************************)
(* _run_terminal (main.py): the local terminal bridged to a shell of the   *)
(* gateway.  One event loop runs the coroutine that waits for the end, the *)
(* reader of stdin, a task for every chunk typed or resize, and the        *)
(* listener that calls on_frame.  An iteration of the loop polls, then     *)
(* runs what was ready (now); what this schedules (later) is run in the    *)
(* next one.  A task writes its frame in its first step.                   *)
(*                                                                         *)
(* External: the user, the socket, and the gateway with its shell.  What   *)
(* the shell prints is written through and left out.                       *)
(***************************************************************************)
EXTENDS Naturals, Sequences

CONSTANTS
  MaxKeys,     \* bound: chunks typed
  MaxResizes   \* bound: resizes of the window

ASSUME BridgeAssumption == MaxKeys \in Nat /\ MaxResizes \in Nat

VARIABLES
  main,     \* where the coroutine is
  waiter,   \* is it suspended in wait_for?
  tty,      \* is stdin raw, is it read by the loop, is on_frame installed
  done,     \* the event
  meta,     \* why it was set
  now,      \* callbacks of this iteration
  later,    \* callbacks of the next one
  typed,    \* chunks read from stdin
  resizes,  \* resizes so far
  sent,     \* frames written to the socket
  socket,   \* external: is it open?
  served,   \* external: frames the gateway has handled
  shell,    \* external: the shell
  got,      \* external: chunks it was given
  answer    \* external: a frame about its end on the way to us

vars == <<main, waiter, tty, done, meta, now, later, typed, resizes, sent,
          socket, served, shell, got, answer>>
gateway == <<socket, served, shell, got>>

Cooked == [raw |-> FALSE, reader |-> FALSE, handler |-> FALSE]
Raw == [raw |-> TRUE, reader |-> TRUE, handler |-> TRUE]

Init ==
  /\ main = "start" /\ waiter = FALSE /\ tty = Cooked /\ done = FALSE /\ meta = {}
  /\ now = <<>> /\ later = <<>> /\ typed = 0 /\ resizes = 0 /\ sent = <<>>
  /\ socket = TRUE /\ served = 0 /\ shell = "none" /\ got = <<>> /\ answer = "none"

Write(frame) == sent' = IF socket THEN Append(sent, frame) ELSE sent

-----------------------------------------------------------------------------
\* The handler is installed, the shell asked for, and stdin put in raw mode.
Open ==
  /\ main = "start" /\ socket
  /\ main' = "waiting" /\ waiter' = TRUE /\ tty' = Raw /\ Write(<<"open", 0>>)
  /\ UNCHANGED <<done, meta, now, later, typed, resizes, gateway, answer>>

\* Sending on a closed socket raises: the finally clause undoes what was done.
OpenFails ==
  /\ main = "start" /\ ~socket
  /\ main' = "returned" /\ tty' = Cooked
  /\ UNCHANGED <<waiter, done, meta, now, later, typed, resizes, sent, gateway, answer>>

\* An iteration begins: at most one chunk of stdin, a signal, a frame from the
\* gateway, and the timer of wait_for, after what the last one has scheduled.
Stdin == IF tty.reader
         THEN {<<>>, <<<<"detach", 0>>>>}
              \cup {<<<<"key", typed + 1>>>> : i \in IF typed < MaxKeys THEN {1} ELSE {}}
         ELSE {<<>>}
Winch == IF tty.reader /\ resizes < MaxResizes
         THEN {<<>>, <<<<"winch", 0>>>>} ELSE {<<>>}
Frame == IF answer # "none" /\ socket THEN <<<<answer, 0>>>> ELSE <<>>
Timer == IF waiter THEN {<<>>, <<<<"timer", 0>>>>} ELSE {<<>>}

Poll ==
  /\ main # "start" /\ now = <<>>
  /\ \E k \in Stdin, w \in Winch, t \in Timer :
       /\ now' = later \o k \o w \o Frame \o t
       /\ resizes' = resizes + Len(w)
  /\ now' # <<>>
  /\ later' = <<>> /\ answer' = IF Frame # <<>> THEN "none" ELSE answer
  /\ UNCHANGED <<main, waiter, tty, done, meta, typed, sent, gateway>>

\* The oldest callback runs.
Run(kinds) == now # <<>> /\ now[1][1] \in kinds /\ now' = Tail(now)

Schedule(item) == later' = Append(later, item)

\* A callback whose reader or handler is gone does nothing.
Stale ==
  /\ Run({"key", "detach", "winch", "exit", "error"}) /\ tty = Cooked
  /\ UNCHANGED <<main, waiter, tty, done, meta, later, typed, resizes, sent, gateway, answer>>

\* on_stdin: a chunk becomes a task of its own.
Key ==
  /\ Run({"key"}) /\ tty.reader
  /\ typed' = now[1][2] /\ Schedule(<<"input", now[1][2]>>)
  /\ UNCHANGED <<main, waiter, tty, done, meta, resizes, sent, gateway, answer>>

Winched ==
  /\ Run({"winch"}) /\ tty.reader /\ Schedule(<<"resize", 0>>)
  /\ UNCHANGED <<main, waiter, tty, done, meta, typed, resizes, sent, gateway, answer>>

\* done.set(): wakes the coroutine if it is suspended.
Wake == /\ waiter' = FALSE
        /\ IF waiter THEN Schedule(<<"wake", 0>>) ELSE UNCHANGED later

Recorded == meta \cup {now[1][1]}

\* A chunk with Ctrl-] in it is dropped; terminal_exit and terminal_error.
Ended ==
  /\ Run({"detach", "exit", "error"})
  /\ tty.handler
  /\ done' = TRUE /\ meta' = Recorded /\ Wake
  /\ UNCHANGED <<main, tty, typed, resizes, sent, gateway, answer>>

\* One second has passed.
TimedOut ==
  /\ Run({"timer"}) /\ Wake
  /\ UNCHANGED <<main, tty, done, meta, typed, resizes, sent, gateway, answer>>

\* Mutant: the send may have to wait for room in the buffer before it writes.
DrainsFirst ==
  /\ Run({"input", "resize"})
  /\ \/ Write(now[1]) /\ UNCHANGED later
     \/ Schedule(now[1]) /\ UNCHANGED sent
  /\ UNCHANGED <<main, waiter, tty, done, meta, typed, resizes, gateway, answer>>

\* A task of ensure_future writes its frame, or fails unnoticed.
TaskRuns ==
  /\ Run({"input", "resize"}) /\ Write(now[1])
  /\ UNCHANGED <<main, waiter, tty, done, meta, later, typed, resizes, gateway, answer>>

\* Mutant: a lost connection is not looked at.
OnlyDone == done
Ends == done \/ ~socket

\* Woken with nothing to report, it waits again.
WaitsOn ==
  /\ Run({"wake"}) /\ ~Ends /\ waiter' = TRUE
  /\ UNCHANGED <<main, tty, done, meta, later, typed, resizes, sent, gateway, answer>>

\* The finally clause: the terminal is restored; a detach closes the shell.
Closes == "detach" \in meta

Finish ==
  /\ Run({"wake"}) /\ Ends
  /\ main' = "returned" /\ tty' = Cooked
  /\ meta' = IF done THEN meta ELSE meta \cup {"error"}
  /\ IF Closes THEN Write(<<"close", 0>>) ELSE UNCHANGED sent
  /\ UNCHANGED <<waiter, done, later, typed, resizes, gateway, answer>>

-----------------------------------------------------------------------------
(* the gateway and the network: external *)

Serve ==
  /\ served < Len(sent) /\ socket
  /\ served' = served + 1
  /\ LET frame == sent[served + 1]
     IN  CASE frame[1] = "open" ->
                /\ UNCHANGED got
                /\ \/ shell' = "running" /\ UNCHANGED answer
                   \/ shell' = "refused" /\ answer' = "error"
           [] frame[1] = "input" /\ shell = "running" ->
                got' = Append(got, frame[2]) /\ UNCHANGED <<shell, answer>>
           [] frame[1] = "close" /\ shell = "running" ->
                shell' = "killed" /\ UNCHANGED <<got, answer>>
           [] OTHER -> UNCHANGED <<shell, got, answer>>
  /\ UNCHANGED <<main, waiter, tty, done, meta, now, later, typed, resizes, sent, socket>>

ShellExits ==
  /\ shell = "running" /\ socket
  /\ shell' = "exited" /\ answer' = "exit"
  /\ UNCHANGED <<main, waiter, tty, done, meta, now, later, typed, resizes, sent, socket,
                 served, got>>

ConnectionLost ==
  /\ socket /\ socket' = FALSE
  /\ UNCHANGED <<main, waiter, tty, done, meta, now, later, typed, resizes, sent, served,
                 shell, got, answer>>

Callback == Stale \/ Key \/ Winched \/ Ended \/ TimedOut \/ TaskRuns \/ WaitsOn \/ Finish

Next == Open \/ OpenFails \/ Poll \/ Callback \/ Serve \/ ShellExits \/ ConnectionLost

Spec == Init /\ [][Next]_vars

\* The loop iterates, its timers expire, and the gateway serves.
TimerExpires == Poll /\ \E i \in DOMAIN now' : now'[i][1] = "timer"
Fairness == /\ WF_vars(Open \/ OpenFails) /\ WF_vars(Poll) /\ WF_vars(Callback)
            /\ SF_vars(TimerExpires) /\ WF_vars(Serve)
FairSpec == Spec /\ Fairness
-----------------------------------------------------------------------------
\* "Every byte is forwarded": the shell is given what was typed, in the order it
\* was typed and without a gap, although every chunk is sent by its own task; and
\* chunks still in tasks when Ctrl-] sets the event are neither overtaken by the
\* close nor left out.
InputInOrder ==
  /\ \A i \in DOMAIN got : got[i] = i
  /\ \A i \in DOMAIN sent : sent[i][1] = "close" =>
       /\ \A j \in DOMAIN sent : sent[j][1] = "input" => j < i
       /\ socket => \A k \in 1..typed : \E j \in DOMAIN sent : sent[j] = <<"input", k>>

\* "A dropped gateway connection doesn't hang the client forever"; nor does a
\* shell that has ended while the connection holds.
BridgeEnds == (~socket \/ shell \in {"exited", "refused"}) ~> main = "returned"
=============================================================================
