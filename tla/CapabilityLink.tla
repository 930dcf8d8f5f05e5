--------------------------- MODULE CapabilityLink ---------------------------
(***************************************************************************)
(* The capability connection of GatewayClient: a second WebSocket by which *)
(* the gateway reaches the tools of this computer.  One coroutine starts   *)
(* and stops it (connect, disconnect); a supervisor task reconnects it; a  *)
(* listener and a heartbeat task serve it; a closer task shuts the socket  *)
(* whose local host transport was lost.  Every action is what one of them  *)
(* does between two awaits.  The host, its bridges and the gateway are     *)
(* external.                                                               *)
(***************************************************************************)
EXTENDS Naturals, FiniteSets

CONSTANTS
  MaxConns,   \* bound: connections that exist at a time (their numbers are reused)
  MaxLosses   \* bound: losses of the host transport

ASSUME ConnsAssumption == MaxConns \in Nat \ {0} /\ MaxLosses \in Nat

Conns == 1..MaxConns

VARIABLES
  main,        \* where connect/disconnect is: MainPlaces
  host,        \* the LocalCapabilityClient: "none", "starting", "held" or "closed"
  stopping,    \* _capabilities_stopping
  sup,         \* the supervisor task: SupPlaces
  cancelled,   \* has the supervisor been cancelled?
  dial,        \* where _connect_capabilities_once is, and for which connection
  closing,     \* where the _close_capability_connection of each caller is
  listener,    \* _capability_listener_task and its connection
  heartbeat,   \* _capability_heartbeat_task and its connection
  capWs,       \* _capability_ws, 0 if None
  capBridge,   \* _capability_bridge, 0 if None
  closer,      \* _capability_transport_close_task and its connection
  chat,        \* is the chat WebSocket open (is_connected)?
  ws,          \* the sockets: "none", "open", "closing" or "closed"
  bridge,      \* external: the bridges: "none", "live" or "closed"
  lost,        \* external: connections whose host transport was lost
  losses,      \* external: how many were lost so far
  consent      \* external: does the user allow local tools?

linkVars == <<listener, heartbeat, capWs, capBridge, ws, bridge>>
envVars  == <<chat, lost, losses, consent>>
vars == <<main, host, stopping, sup, cancelled, dial, closing, listener, heartbeat, capWs,
          capBridge, closer, chat, ws, bridge, lost, losses, consent>>

StopPlaces == {"stop", "joinSup", "closing", "joinCloser", "hostStop", "chatClose"}
MainPlaces == {"init", "hostStart", "connect", "hostClose", "up", "gone"} \cup StopPlaces
SupPlaces  == {"none", "wait", "closing", "sleep", "connect", "done"}
Task(states) == [st : states, conn : 0..MaxConns]
NoTask == [st |-> "none", conn |-> 0]
NoDial == [stage |-> "idle", conn |-> 0]

Init ==
  /\ main = "init" /\ host = "none" /\ stopping = FALSE /\ sup = "none" /\ cancelled = FALSE
  /\ dial = NoDial /\ closing = [w \in {"main", "sup"} |-> "idle"]
  /\ listener = NoTask /\ heartbeat = NoTask /\ capWs = 0 /\ capBridge = 0 /\ closer = NoTask
  /\ chat = TRUE /\ ws = [c \in Conns |-> "none"] /\ bridge = [c \in Conns |-> "none"]
  /\ lost = {} /\ losses = 0 /\ consent \in BOOLEAN

-----------------------------------------------------------------------------
(* _start_local_capabilities *)

\* host-tools missing, or no certified identity: chat goes on without.
StartUnavailable ==
  /\ main = "init" /\ main' = "up"
  /\ UNCHANGED <<host, stopping, sup, cancelled, dial, closing, closer, linkVars, envVars>>

StartHost ==
  /\ main = "init" /\ main' = "hostStart" /\ host' = "starting"
  /\ UNCHANGED <<stopping, sup, cancelled, dial, closing, closer, linkVars, envVars>>

HostStarted ==
  /\ main = "hostStart"
  /\ \/ main' = "connect" /\ host' = "held" /\ stopping' = FALSE
        /\ dial' = [NoDial EXCEPT !.stage = "status"]
     \/ main' = "hostClose" /\ UNCHANGED <<host, stopping, dial>>
  /\ UNCHANGED <<sup, cancelled, closing, closer, linkVars, envVars>>

\* The except clause: the host is closed and no supervisor is created.
HostClosed ==
  /\ main = "hostClose" /\ main' = "up" /\ host' = "closed"
  /\ UNCHANGED <<stopping, sup, cancelled, dial, closing, closer, linkVars, envVars>>

\* Ctrl-C while connect() is awaiting: it runs disconnect() on its way out.
StartCancelled ==
  /\ main \in {"hostStart", "connect", "hostClose"}
  /\ main' = "stop" /\ dial' = NoDial
  /\ UNCHANGED <<host, stopping, sup, cancelled, closing, closer, linkVars, envVars>>

-----------------------------------------------------------------------------
(* _connect_capabilities_once, run by connect() and then by the supervisor. *)

\* The supervisor takes its next step only while it is not cancelled.
Dialling(stage) == /\ dial.stage = stage
                   /\ main = "connect" \/ (sup = "connect" /\ ~cancelled)

\* Mutant: the supervisor dies of an exception.
DialReturnsUncaught(raised) ==
  /\ dial' = NoDial
  /\ IF main = "connect"
     THEN /\ main' = IF raised THEN "hostClose" ELSE "up"
          /\ sup' = IF raised THEN sup ELSE "wait"
     ELSE sup' = (IF raised THEN "done" ELSE "wait") /\ UNCHANGED main
\* It returns to its caller: with an answer, or by raising.
DialReturns(raised) ==
  /\ dial' = NoDial
  /\ IF main = "connect"
     THEN /\ main' = IF raised THEN "hostClose" ELSE "up"
          /\ sup' = IF raised THEN sup ELSE "wait"
     ELSE sup' = "wait" /\ UNCHANGED main

\* The status says whether there is consent, or cannot be had.
DialStatus ==
  /\ Dialling("status")
  /\ \/ consent /\ dial' = [dial EXCEPT !.stage = "connecting"] /\ UNCHANGED <<main, sup>>
     \/ ~consent /\ DialReturns(FALSE)
  /\ UNCHANGED <<host, stopping, cancelled, closing, closer, linkVars, envVars>>

DialFails ==
  /\ Dialling("status") \/ Dialling("connecting")
  /\ DialReturns(TRUE)
  /\ UNCHANGED <<host, stopping, cancelled, closing, closer, linkVars, envVars>>

\* A number no task and no field refers to any more.
Free(c) == /\ ws[c] \in {"none", "closed"} /\ bridge[c] # "live"
           /\ c \notin {listener.conn, heartbeat.conn, closer.conn, capWs, capBridge, dial.conn}

DialConnected ==
  /\ Dialling("connecting")
  /\ \E c \in Conns :
       /\ Free(c) /\ \A d \in 1..(c - 1) : ~Free(d)
       /\ ws' = [ws EXCEPT ![c] = "open"] /\ bridge' = [bridge EXCEPT ![c] = "live"]
       /\ lost' = lost \ {c} /\ dial' = [stage |-> "hello", conn |-> c]
  /\ UNCHANGED <<main, host, stopping, sup, cancelled, closing, closer, listener, heartbeat,
                 capWs, capBridge, chat, losses, consent>>

\* An acceptable acknowledgement: the connection is published and served.
DialAccepted ==
  /\ Dialling("hello") /\ ws[dial.conn] = "open"
  /\ capWs' = dial.conn /\ capBridge' = dial.conn
  /\ listener' = [st |-> "running", conn |-> dial.conn]
  /\ heartbeat' = [st |-> "running", conn |-> dial.conn]
  /\ DialReturns(FALSE)
  /\ UNCHANGED <<host, stopping, cancelled, closing, closer, ws, bridge, envVars>>

\* hello raised, the socket closed, or the acknowledgement was late or wrong.
DialRejected ==
  /\ Dialling("hello")
  /\ dial' = [dial EXCEPT !.stage = "failBridge"]
  /\ UNCHANGED <<main, host, stopping, sup, cancelled, closing, closer, linkVars, envVars>>

\* The except clause closes the bridge, then the socket, and raises.
DialCleanup ==
  \/ /\ Dialling("failBridge")
     /\ bridge' = [bridge EXCEPT ![dial.conn] = "closed"]
     /\ dial' = [dial EXCEPT !.stage = "failWs"]
     /\ UNCHANGED <<main, host, stopping, sup, cancelled, closing, closer, listener, heartbeat,
                    capWs, capBridge, ws, envVars>>
  \/ /\ Dialling("failWs")
     /\ ws' = [ws EXCEPT ![dial.conn] = "closed"]
     /\ DialReturns(TRUE)
     /\ UNCHANGED <<host, stopping, cancelled, closing, closer, listener, heartbeat, capWs,
                    capBridge, bridge, envVars>>

-----------------------------------------------------------------------------
(* _close_capability_connection, called by the supervisor and by disconnect() *)

Cancel(t) == IF t.st = "running" THEN [t EXCEPT !.st = "cancelled"] ELSE t
BeginCloseUncancelled(w) ==
  /\ closing' = [closing EXCEPT ![w] = "gather"]
  /\ UNCHANGED <<listener, heartbeat>>
BeginClose(w) ==
  /\ closing' = [closing EXCEPT ![w] = "gather"]
  /\ listener' = Cancel(listener) /\ heartbeat' = Cancel(heartbeat)

CloseGather(w) ==
  /\ closing[w] = "gather"
  /\ listener.st \notin {"running", "cancelled"} /\ heartbeat.st \notin {"running", "cancelled"}
  /\ listener' = NoTask /\ heartbeat' = NoTask
  /\ closing' = [closing EXCEPT ![w] = "bridge"]
  /\ UNCHANGED <<capWs, capBridge, ws, bridge>>

CloseBridge(w) ==
  /\ closing[w] = "bridge"
  /\ bridge' = [c \in Conns |-> IF c = capBridge THEN "closed" ELSE bridge[c]]
  /\ closing' = [closing EXCEPT ![w] = "ws"]
  /\ UNCHANGED <<listener, heartbeat, capWs, capBridge, ws>>

\* close() of a socket that the closer is closing returns at once.
CloseWsUnclosed(w) ==
  /\ closing[w] = "ws" /\ capWs' = 0 /\ capBridge' = 0
  /\ closing' = [closing EXCEPT ![w] = "idle"]
  /\ UNCHANGED <<listener, heartbeat, ws, bridge>>
CloseWs(w) ==
  /\ closing[w] = "ws"
  /\ ws' = [c \in Conns |-> IF c = capWs /\ ws[c] = "open" THEN "closed" ELSE ws[c]]
  /\ capWs' = 0 /\ capBridge' = 0
  /\ closing' = [closing EXCEPT ![w] = "idle"]
  /\ UNCHANGED <<listener, heartbeat, bridge>>

-----------------------------------------------------------------------------
(* _supervise_capabilities *)

SupRuns(place) == sup = place /\ ~cancelled
Serving == listener.st # "none" \/ heartbeat.st # "none"

\* The loop's checks before it sleeps.
SupContinues ==
  sup' = IF stopping \/ ~chat THEN "done" ELSE "sleep"

SupWoken ==
  /\ SupRuns("wait")
  /\ \/ /\ listener.st = "ended" \/ heartbeat.st = "ended"
        /\ sup' = "closing" /\ BeginClose("sup")
     \/ ~Serving /\ SupContinues /\ UNCHANGED <<closing, listener, heartbeat>>
  /\ UNCHANGED <<main, host, stopping, cancelled, dial, closer, capWs, capBridge, ws, bridge,
                 envVars>>

SupCloses ==
  /\ SupRuns("closing")
  /\ \/ CloseGather("sup") /\ UNCHANGED sup
     \/ CloseBridge("sup") /\ UNCHANGED sup
     \/ CloseWs("sup") /\ SupContinues
  /\ UNCHANGED <<main, host, stopping, cancelled, dial, closer, envVars>>

\* The backoff has passed; a task made ready before that has had its turn.
SupRetries ==
  /\ SupRuns("sleep") /\ closer.st # "scheduled" /\ sup' = "connect"
  /\ dial' = [NoDial EXCEPT !.stage = "status"]
  /\ UNCHANGED <<main, host, stopping, cancelled, closing, closer, linkVars, envVars>>

\* CancelledError at whatever it awaits: no except clause on the way catches it.
SupCancelled ==
  /\ cancelled /\ sup \notin {"none", "done"}
  /\ sup' = "done" /\ closing' = [closing EXCEPT !["sup"] = "idle"]
  /\ dial' = NoDial
  /\ UNCHANGED <<main, host, stopping, cancelled, closer, linkVars, envVars>>

-----------------------------------------------------------------------------
(* The tasks that serve the connection. *)

\* The socket ended, a handler raised, or the task was cancelled.
ListenerEnds ==
  /\ listener.st \in {"running", "cancelled"}
  /\ listener' = [listener EXCEPT !.st = "ended"]
  /\ UNCHANGED <<main, host, stopping, sup, cancelled, dial, closing, heartbeat, capWs,
                 capBridge, closer, ws, bridge, envVars>>

\* The status or the send failed, or the task was cancelled.
HeartbeatEnds ==
  /\ heartbeat.st \in {"running", "cancelled"}
  /\ heartbeat' = [heartbeat EXCEPT !.st = "ended"]
  /\ UNCHANGED <<main, host, stopping, sup, cancelled, dial, closing, listener, capWs,
                 capBridge, closer, ws, bridge, envVars>>

\* _schedule_capability_transport_close, called by the bridge.
ScheduleClose(c) == IF stopping \/ closer.st # "none" THEN closer
                    ELSE [st |-> "scheduled", conn |-> c]

HostTransportLost ==
  /\ capBridge # 0 /\ bridge[capBridge] = "live" /\ capBridge \notin lost /\ losses < MaxLosses
  /\ lost' = lost \cup {capBridge} /\ losses' = losses + 1
  /\ closer' = ScheduleClose(capBridge)
  /\ UNCHANGED <<main, host, stopping, sup, cancelled, dial, closing, linkVars, chat, consent>>

\* close_exact_socket: the close handshake begins, and ends the listener's loop.
CloserRuns ==
  /\ closer.st = "scheduled"
  /\ IF capWs # closer.conn \/ capBridge # closer.conn \/ ws[capWs] # "open"
     THEN closer' = NoTask /\ UNCHANGED ws
     ELSE closer' = [closer EXCEPT !.st = "closing"] /\ ws' = [ws EXCEPT ![closer.conn] = "closing"]
  /\ UNCHANGED <<main, host, stopping, sup, cancelled, dial, closing, listener, heartbeat, capWs,
                 capBridge, bridge, envVars>>

\* The gateway answers the close, or it times out; a cancelled close also ends.
CloserDone ==
  /\ closer.st \in {"closing", "cancelled"}
  /\ ws' = [c \in Conns |-> IF c = closer.conn /\ ws[c] = "closing" THEN "closed" ELSE ws[c]]
  /\ closer' = NoTask
  /\ UNCHANGED <<main, host, stopping, sup, cancelled, dial, closing, listener, heartbeat, capWs,
                 capBridge, bridge, envVars>>

-----------------------------------------------------------------------------
(* disconnect() and _stop_local_capabilities *)

Disconnect ==
  /\ main = "up" /\ main' = "stop"
  /\ UNCHANGED <<host, stopping, sup, cancelled, dial, closing, closer, linkVars, envVars>>

StopBegins ==
  /\ main = "stop" /\ stopping' = TRUE
  /\ IF sup # "none"
     THEN main' = "joinSup" /\ cancelled' = TRUE /\ UNCHANGED <<closing, listener, heartbeat>>
     ELSE main' = "closing" /\ BeginClose("main") /\ UNCHANGED cancelled
  /\ UNCHANGED <<host, sup, dial, closer, capWs, capBridge, ws, bridge, envVars>>

StopJoinsSup ==
  /\ main = "joinSup" /\ sup = "done"
  /\ main' = "closing" /\ BeginClose("main")
  /\ UNCHANGED <<host, stopping, sup, cancelled, dial, closer, capWs, capBridge, ws, bridge,
                 envVars>>

StopCloses ==
  /\ main = "closing"
  /\ \/ CloseGather("main") /\ UNCHANGED <<main, closer>>
     \/ CloseBridge("main") /\ UNCHANGED <<main, closer>>
     \/ /\ CloseWs("main") /\ main' = "joinCloser"
        /\ closer' = IF closer.st = "none" THEN closer ELSE [closer EXCEPT !.st = "cancelled"]
  /\ UNCHANGED <<host, stopping, sup, cancelled, dial, envVars>>

StopJoinsCloser ==
  /\ main = "joinCloser" /\ closer.st = "none"
  /\ main' = "hostStop"
  /\ UNCHANGED <<host, stopping, sup, cancelled, dial, closing, closer, linkVars, envVars>>

\* The principal is released and the host closed.
StopHost ==
  /\ main = "hostStop" /\ main' = "chatClose"
  /\ host' = IF host = "held" THEN "closed" ELSE host
  /\ UNCHANGED <<stopping, sup, cancelled, dial, closing, closer, linkVars, envVars>>

\* The rest of disconnect(): the HTTP session closes every socket it opened.
CloseSessionLeaky ==
  /\ main = "chatClose" /\ main' = "gone" /\ chat' = FALSE
  /\ UNCHANGED <<host, stopping, sup, cancelled, dial, closing, closer, linkVars, lost, losses,
                 consent>>
CloseSession ==
  /\ main = "chatClose" /\ main' = "gone" /\ chat' = FALSE
  /\ ws' = [c \in Conns |-> IF ws[c] = "none" THEN "none" ELSE "closed"]
  /\ UNCHANGED <<host, stopping, sup, cancelled, dial, closing, closer, listener, heartbeat,
                 capWs, capBridge, bridge, lost, losses, consent>>

-----------------------------------------------------------------------------
(* The network, the gateway and the user's consent: external. *)

LinkDropped ==
  /\ \E c \in Conns : ws[c] = "open" /\ ws' = [ws EXCEPT ![c] = "closed"]
  /\ UNCHANGED <<main, host, stopping, sup, cancelled, dial, closing, closer, listener, heartbeat,
                 capWs, capBridge, bridge, envVars>>

ChatLost ==
  /\ chat /\ chat' = FALSE
  /\ UNCHANGED <<main, host, stopping, sup, cancelled, dial, closing, closer, linkVars, lost,
                 losses, consent>>

ConsentChanges ==
  /\ consent' = ~consent
  /\ UNCHANGED <<main, host, stopping, sup, cancelled, dial, closing, closer, linkVars, chat,
                 lost, losses>>

-----------------------------------------------------------------------------
Start == StartUnavailable \/ StartHost \/ HostStarted \/ HostClosed
Dial  == DialStatus \/ DialFails \/ DialConnected \/ DialAccepted \/ DialRejected \/ DialCleanup
Supervise == SupWoken \/ SupCloses \/ SupRetries \/ SupCancelled
Stop  == \/ StopBegins \/ StopJoinsSup \/ StopCloses \/ StopJoinsCloser \/ StopHost
         \/ CloseSession
Environment == \/ HostTransportLost \/ LinkDropped \/ ChatLost \/ ConsentChanges

Next == \/ Start \/ StartCancelled \/ Dial \/ Supervise \/ ListenerEnds \/ HeartbeatEnds
        \/ CloserRuns \/ CloserDone \/ Disconnect \/ Stop \/ Environment

Spec == Init /\ [][Next]_vars

\* A task that can run runs; a task whose socket has ended, or that was
\* cancelled, notices; a close handshake ends, at the latest by its timeout.
Fairness ==
  /\ WF_vars(Start) /\ WF_vars(Dial) /\ WF_vars(Supervise) /\ WF_vars(Stop)
  /\ WF_vars(ListenerEnds /\ (listener.st = "cancelled" \/ ws[listener.conn] # "open"))
  /\ WF_vars(HeartbeatEnds /\ heartbeat.st = "cancelled")
  /\ WF_vars(CloserRuns) /\ WF_vars(CloserDone)

\* And the gateway, tried again and again, some time accepts.
GatewayAccepts == SF_vars(DialStatus /\ consent) /\ SF_vars(DialConnected) /\ SF_vars(DialAccepted)

FairSpec == Spec /\ Fairness /\ GatewayAccepts
-----------------------------------------------------------------------------

\* The gateway never has two open links of this client: a connection is dialled
\* only when the one before it has been closed and its tasks joined; the tasks
\* serve the published connection, and only one caller closes it.
LinkIsOwned ==
  /\ dial.conn # 0 => /\ capWs = 0 /\ capBridge = 0 /\ ~Serving
                      /\ \A c \in Conns : ws[c] = "open" => c = dial.conn
  /\ capWs = capBridge
  /\ Serving => listener.conn = capWs /\ heartbeat.conn = capWs
  /\ closing["main"] = "idle" \/ closing["sup"] = "idle"

\* After disconnect() nothing of the capability link runs or is open, and the
\* host is closed; at most the bridge whose handshake was cut short is left.
QuietAfterDisconnect ==
  main = "gone" =>
    /\ sup \in {"none", "done"} /\ ~Serving /\ closer.st = "none" /\ dial = NoDial
    /\ host # "held" /\ \A c \in Conns : ws[c] \in {"none", "closed"}
    /\ Cardinality({c \in Conns : bridge[c] = "live"}) <= 1

\* disconnect() returns: none of the tasks it joins waits for it in turn.
DisconnectReturns == (main \in StopPlaces) ~> (main = "gone")

\* While the chat is up and the user consents, a lost link is dialled again
\* until the gateway accepts it.  "Close only the capability socket whose local
\* broker was lost": once a close of the current link's socket is scheduled, that
\* link goes; it is not scheduled while the close of an earlier one runs, nor
\* before the acknowledgement.
LinkRestored ==
  /\ (main = "up" /\ sup # "none" /\ capWs = 0)
       ~> (capWs # 0 \/ main # "up" \/ ~chat \/ ~consent)
  /\ \A c \in Conns : (capBridge = c /\ c \in lost /\ closer.conn = c) ~> (capBridge # c)

=============================================================================
