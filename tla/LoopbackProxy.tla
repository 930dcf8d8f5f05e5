--------------------------- MODULE LoopbackProxy ---------------------------
(***************************************************************************)
(* The loopback proxy and the dialer behind it, as GatewayClient uses them: *)
(* every local TCP connection of aiohttp is a task of its own that opens a *)
(* gateway stream through the pool of ConnectionPool and then runs two     *)
(* pumps, one per direction.  disconnect() closes the aiohttp session,     *)
(* stops the proxy, closes the dialer and stops the node, in this order.   *)
(* Server.wait_closed() waits for the accepted connections from Python     *)
(* 3.12 on and returns at once before; the project supports both (3.11+).  *)
(***************************************************************************)
EXTENDS ConnectionPool

VARIABLES
  waits,  \* does wait_closed wait for the accepted connections?
  proxy,  \* the listening server and the node under it, through disconnect()
  link    \* per request: its local socket, its two pumps, the gateway's half

proxyVars == <<waits, proxy, link>>
allVars == <<vars, proxyVars>>

NoLink == [local |-> "none", up |-> "off", down |-> "off", far |-> "open"]

ProxyInit == /\ Init
             /\ waits \in BOOLEAN /\ (redials => waits) /\ proxy = "listening"
             /\ link = [r \in Requests |-> NoLink]

StreamUp(r) == req[r].conn \in alive

-----------------------------------------------------------------------------
(* _handle_local *)

\* aiohttp connects: the server starts a handler, which asks for a stream.
Accept(r) ==
  /\ proxy = "listening" /\ link[r] = NoLink /\ Request(r)
  /\ link' = [link EXCEPT ![r].local = "open"]
  /\ UNCHANGED <<waits, proxy>>

\* The stream factory runs; on its failure the local socket is closed, on its
\* success both pumps start.
OpenStream(r) ==
  /\ Serve(r)
  /\ ~(proxy = "off" /\ Dialled(r))   \* the node is gone
  /\ link' = IF req'[r].at = "idle" THEN [link EXCEPT ![r] = NoLink]
             ELSE IF req'[r].at = "stream" THEN [link EXCEPT ![r].up = "on", ![r].down = "on"]
             ELSE link
  /\ UNCHANGED <<waits, proxy>>

\* The client closes its socket: a request done with, a time-out, a Ctrl-C.
LocalShuts(r) ==
  /\ link[r].local = "open"
  /\ link' = [link EXCEPT ![r].local = "shut"]
  /\ UNCHANGED <<vars, waits, proxy>>

\* The handler returns once both pumps have ended; a local socket that nobody
\* has closed stays attached to the server.
Returned(l) == [NoLink EXCEPT !.local = IF l.local = "closed" THEN "none" ELSE l.local]

\* One pump has ended, which leaves l.
PumpEnds(r, l) ==
  IF {l.up, l.down} = {"done"}
  THEN link' = [link EXCEPT ![r] = Returned(l)] /\ Fails(r)
  ELSE link' = [link EXCEPT ![r] = l] /\ UNCHANGED req

\* local_to_iroh ends at the end of the local side, or when a write fails; it
\* finishes the stream in every case.
UpEnds(r) ==
  /\ link[r].up = "on" /\ (link[r].local \in {"shut", "closed"} \/ ~StreamUp(r))
  /\ PumpEnds(r, [link[r] EXCEPT !.up = "done"])
  /\ UNCHANGED <<redials, pool, lock, ours, alive, closed, waits, proxy>>

\* Mutant: the local socket stays open.
LeftOpen(r) == link[r].local

LocalAfter(r) == "closed"

\* It ends at the end of the gateway's half or with the connection, and closes
\* the local socket, which ends the other pump.
DownEnds(r) ==
  /\ link[r].down = "on" /\ (link[r].far = "ended" \/ ~StreamUp(r))
  /\ PumpEnds(r, [link[r] EXCEPT !.down = "done", !.local = LocalAfter(r)])
  /\ UNCHANGED <<redials, pool, lock, ours, alive, closed, waits, proxy>>

-----------------------------------------------------------------------------
(* The gateway's end of a stream: external *)

FarEnds(r) ==
  /\ link[r].down = "on" /\ link[r].far = "open" /\ StreamUp(r)
  /\ link' = [link EXCEPT ![r].far = "ended"]
  /\ UNCHANGED <<vars, waits, proxy>>

\* An HTTP server ends its half once ours is finished.
FarFollows(r) == link[r].up = "done" /\ FarEnds(r)

-----------------------------------------------------------------------------
(* disconnect(): session.close(), proxy.stop(), dialer.close(), node.stop() *)

BeginStop ==
  /\ proxy = "listening" /\ proxy' = "closing"
  /\ link' = [r \in Requests |-> IF link[r].local = "open"
                                 THEN [link[r] EXCEPT !.local = "shut"] ELSE link[r]]
  /\ UNCHANGED <<vars, waits>>

\* Mutant: stop() returns without waiting.
NoWait == TRUE

WaitClosed == waits => \A r \in Requests : link[r].local \in {"none", "closed"}

Stopped ==
  /\ proxy = "closing" /\ WaitClosed
  /\ proxy' = "stopped"
  /\ UNCHANGED <<vars, waits, link>>

CloseDialer == proxy = "stopped" /\ Close /\ UNCHANGED proxyVars

\* Whatever connection is left ends with the node; nothing is dialled after.
NodeStops ==
  /\ closed /\ proxy = "stopped" /\ proxy' = "off"
  /\ ours' = {} /\ alive' = {}
  /\ UNCHANGED <<redials, pool, lock, req, closed, waits, link>>

ProxyNext ==
  \/ \E r \in Requests : \/ Accept(r) \/ OpenStream(r) \/ LocalShuts(r)
                         \/ UpEnds(r) \/ DownEnds(r) \/ FarEnds(r)
  \/ BeginStop \/ Stopped \/ CloseDialer \/ NodeStops
  \/ ConnectionDies /\ UNCHANGED proxyVars

ProxySpec == ProxyInit /\ [][ProxyNext]_allVars

\* The tasks run, and the lock they wait for is first come, first served; the
\* client goes on making requests and being done with them while the proxy
\* listens; a gateway ends a stream whose other half is finished.
ProxyFairness ==
  /\ \A r \in Requests : /\ SF_allVars(OpenStream(r))
                         /\ WF_allVars(Accept(r) \/ LocalShuts(r))
                         /\ WF_allVars(UpEnds(r) \/ DownEnds(r))
                         /\ WF_allVars(FarFollows(r))
  /\ WF_allVars(Stopped \/ CloseDialer)

FairProxySpec == ProxySpec /\ ProxyFairness
-----------------------------------------------------------------------------
\* Once the dialer is closed, no request in flight dials again: no connection
\* is in the pool and no task can make one.  It holds because stop() waits for
\* the handlers, so not before Python 3.12.
NothingDialsAfterClose ==
  waits /\ closed => pool = 0 /\ \A r \in Requests : req[r].at \in {"idle", "stream"}

\* stop() returns although it waits for every local connection: each pump's end
\* ends the other, also of a request that was just dialling.
StopReturns == (proxy = "closing") ~> (proxy = "stopped")

=============================================================================
