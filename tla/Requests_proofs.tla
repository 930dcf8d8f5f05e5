--------------------------- MODULE Requests_proofs ----------------------------
(***************************************************************************)
(* Proofs about requests to a gateway: the pool and the loopback proxy that *)
(* carry them, for any set of requests and any number of connections, and  *)
(* the API that makes them, for any number of pages and of snapshots.      *)
(***************************************************************************)
EXTENDS LoopbackProxy, RemoteApi, TLAPS

-----------------------------------------------------------------------------
(* ConnectionPool and LoopbackProxy                                        *)

PoolType ==
  /\ redials \in BOOLEAN /\ closed \in BOOLEAN
  /\ pool \in 0..MaxConns /\ lock \in SUBSET Requests
  /\ ours \in SUBSET Conns /\ alive \in SUBSET Conns
  /\ req \in [Requests -> [at : Places, conn : 0..MaxConns, first : 0..MaxConns]]

\* Whoever dials holds the lock alone, and the pool is empty meanwhile.
OneDials ==
  \A r \in Requests : req[r].at = "dial" => lock = {r} /\ pool = 0

\* A request that opens a stream, or failed to, has a connection; one that is
\* tried again will not find the connection that failed in the pool.
Tries ==
  \A r \in Requests :
    /\ req[r].at \in {"open", "evict"} => req[r].conn \in Conns
    /\ req[r].at \in {"get", "dial"} /\ req[r].first # 0 => pool # req[r].first

PoolInv == PoolType /\ OneDials /\ Tries /\ NothingOrphaned /\ RetryUsesAnother

-----------------------------------------------------------------------------
InFlight(r) == req[r].at \in {"get", "dial", "open", "evict"}

LinkType ==
  /\ waits \in BOOLEAN /\ proxy \in {"listening", "closing", "stopped", "off"}
  /\ link \in [Requests -> [local : {"none", "open", "shut", "closed"},
                            up : {"off", "on", "done"}, down : {"off", "on", "done"},
                            far : {"open", "ended"}]]

\* A handler that is still asking for a stream has its local socket open or
\* shut by the client, and no pump yet.
Handlers ==
  \A r \in Requests :
    /\ InFlight(r) => link[r].local \in {"open", "shut"}
    /\ req[r].at # "stream" => link[r].up = "off" /\ link[r].down = "off"

\* The dialer is closed after stop() has returned, and stop() returns, where it
\* waits, when no local socket is attached to the server any more.
Stops ==
  /\ closed => proxy \in {"stopped", "off"}
  /\ waits /\ proxy \in {"stopped", "off"} =>
       \A r \in Requests : link[r].local \in {"none", "closed"}
  /\ waits /\ closed => pool = 0

ProxyInv == PoolInv /\ LinkType /\ Handlers /\ Stops

-----------------------------------------------------------------------------
\* The pool's invariant is kept by every step of a request and of the pool.
LEMMA PoolInit == Init => PoolInv
<1> SUFFICES ASSUME Init PROVE PoolInv
  OBVIOUS
<1>1. req \in [Requests -> [at : Places, conn : 0..MaxConns, first : 0..MaxConns]]
  BY PoolAssumption DEF Init, NoRequest, Places
<1>2. \A r \in Requests : req[r].at = "idle"
  BY DEF Init, NoRequest
<1>3. PoolType
  <2>1. pool \in 0..MaxConns /\ lock \in SUBSET Requests
    BY PoolAssumption DEF Init
  <2>2. ours \in SUBSET Conns /\ alive \in SUBSET Conns /\ redials \in BOOLEAN /\ closed \in BOOLEAN
    BY DEF Init
  <2> QED BY <1>1, <2>1, <2>2 DEF PoolType
<1>4. OneDials /\ Tries /\ RetryUsesAnother
  BY <1>2 DEF OneDials, Tries, RetryUsesAnother
<1> QED BY <1>3, <1>4 DEF Init, PoolInv, NothingOrphaned

\* A request that comes in owns no connection yet.
LEMMA RequestPool ==
  ASSUME PoolInv, NEW r \in Requests, Request(r)
  PROVE  PoolInv'
<1>1. /\ req[r].at = "idle" /\ req'[r].at = "get" /\ req'[r].first = 0
      /\ \A q \in Requests \ {r} : req'[q] = req[q]
      /\ req' \in [Requests -> [at : Places, conn : 0..MaxConns, first : 0..MaxConns]]
  BY PoolAssumption DEF Request, NoRequest, PoolInv, PoolType, Places
<1>2. PoolType'
  BY <1>1 DEF Request, PoolInv, PoolType
<1>3. OneDials' /\ Tries' /\ RetryUsesAnother' /\ NothingOrphaned'
  BY <1>1 DEF Request, PoolInv, OneDials, Tries, RetryUsesAnother, NothingOrphaned
<1> QED BY <1>2, <1>3 DEF PoolInv

\* Taking the pooled connection leaves it in the pool.
LEMMA GetPooledPool ==
  ASSUME PoolInv, NEW r \in Requests, GetPooled(r)
  PROVE  PoolInv'
<1>1. /\ req[r].at = "get" /\ pool \in Conns /\ UNCHANGED <<redials, pool, lock, ours, alive, closed>>
      /\ req' = [req EXCEPT ![r].at = "open", ![r].conn = pool]
  BY PoolAssumption DEF GetPooled, PoolInv, PoolType, Conns
<1>2. /\ req'[r].at = "open" /\ req'[r].conn = pool /\ req'[r].first = req[r].first
      /\ \A q \in Requests \ {r} : req'[q] = req[q]
      /\ req' \in [Requests -> [at : Places, conn : 0..MaxConns, first : 0..MaxConns]]
  BY <1>1 DEF PoolInv, PoolType, Places
<1>3. pool # req[r].first
  BY <1>1, PoolAssumption DEF PoolInv, Tries, Conns
<1>4. PoolType'
  BY <1>1, <1>2 DEF PoolInv, PoolType
<1>5. OneDials' /\ Tries' /\ RetryUsesAnother' /\ NothingOrphaned'
  BY <1>1, <1>2, <1>3 DEF PoolInv, OneDials, Tries, RetryUsesAnother, NothingOrphaned
<1> QED BY <1>4, <1>5 DEF PoolInv

\* Only one request dials: it takes the lock of an empty pool.
LEMMA GetByDiallingPool ==
  ASSUME PoolInv, NEW r \in Requests, GetByDialling(r)
  PROVE  PoolInv'
<1>1. /\ req[r].at = "get" /\ lock = {} /\ pool = 0 /\ lock' = {r}
      /\ UNCHANGED <<redials, pool, ours, alive, closed>>
  BY DEF GetByDialling
<1>2. /\ req'[r].at = "dial" /\ req'[r].first = req[r].first
      /\ \A q \in Requests \ {r} : req'[q] = req[q] /\ req[q].at # "dial"
      /\ req' \in [Requests -> [at : Places, conn : 0..MaxConns, first : 0..MaxConns]]
  BY <1>1 DEF GetByDialling, Goto, PoolInv, PoolType, OneDials, Places
<1>3. PoolType'
  BY <1>1, <1>2 DEF PoolInv, PoolType
<1>4. OneDials' /\ Tries' /\ RetryUsesAnother' /\ NothingOrphaned'
  BY <1>1, <1>2 DEF PoolInv, OneDials, Tries, RetryUsesAnother, NothingOrphaned
<1> QED BY <1>3, <1>4 DEF PoolInv

\* The connection dialled is a new one, and goes into the pool.
LEMMA DialledPool ==
  ASSUME PoolInv, NEW r \in Requests, Dialled(r)
  PROVE  PoolInv'
<1>1. PICK c \in Conns :
        /\ Free(c) /\ pool' = c /\ ours' = ours \cup {c} /\ alive' = alive \cup {c}
        /\ req' = [req EXCEPT ![r].at = "open", ![r].conn = c]
  BY DEF Dialled
<1>2. /\ lock = {r} /\ pool = 0 /\ lock' = {} /\ UNCHANGED <<redials, closed>>
      /\ req[r].at = "dial"
  BY DEF Dialled, PoolInv, OneDials
<1>3. c \in 1..MaxConns /\ \A q \in Requests : req[q].conn # c /\ req[q].first # c
  BY <1>1 DEF Free, Conns
<1>4. PoolType'
  BY <1>1, <1>2, <1>3, PoolAssumption DEF PoolInv, PoolType, Places, Conns
<1>5. ours = {}
  BY <1>2 DEF PoolInv, PoolType, NothingOrphaned, Conns
<1>6. \A q \in Requests : q # r => req[q].at # "dial" /\ req'[q] = req[q]
  BY <1>1, <1>2 DEF PoolInv, PoolType, OneDials
<1>7. req'[r].at = "open" /\ req'[r].conn = c /\ req'[r].first # c
  BY <1>1, <1>3 DEF PoolInv, PoolType
<1>8. OneDials' /\ Tries' /\ RetryUsesAnother'
  BY <1>1, <1>3, <1>6, <1>7 DEF PoolInv, OneDials, Tries, RetryUsesAnother
<1> QED BY <1>1, <1>4, <1>5, <1>8 DEF PoolInv, NothingOrphaned

\* A request that fails gives the lock back and keeps no connection.
LEMMA FailsPool ==
  ASSUME PoolInv, NEW r \in Requests, Fails(r), UNCHANGED <<redials, pool, ours, alive, closed>>,
         UNCHANGED lock \/ (req[r].at = "dial" /\ lock' = {})
  PROVE  PoolInv'
<1>1. /\ req'[r].at = "idle" /\ \A q \in Requests \ {r} : req'[q] = req[q]
      /\ req' \in [Requests -> [at : Places, conn : 0..MaxConns, first : 0..MaxConns]]
  BY PoolAssumption DEF Fails, NoRequest, PoolInv, PoolType, Places
<1>2. \A q \in Requests \ {r} : req[q].at = "dial" => lock' = lock
  BY DEF PoolInv, OneDials
<1>3. PoolType'
  BY <1>1 DEF PoolInv, PoolType
<1>4. OneDials'
  BY <1>1, <1>2 DEF PoolInv, OneDials
<1>5. Tries' /\ RetryUsesAnother' /\ NothingOrphaned'
  BY <1>1 DEF PoolInv, Tries, RetryUsesAnother, NothingOrphaned
<1> QED BY <1>3, <1>4, <1>5 DEF PoolInv

\* The stream opens, or fails and the connection is to be evicted.
LEMMA GotoPool ==
  ASSUME PoolInv, NEW r \in Requests, req[r].at = "open",
         Goto(r, "stream") \/ Goto(r, "evict"),
         UNCHANGED <<redials, pool, lock, ours, alive, closed>>
  PROVE  PoolInv'
<1>1. /\ req'[r].at \in {"stream", "evict"} /\ req'[r].conn = req[r].conn
      /\ \A q \in Requests \ {r} : req'[q] = req[q]
      /\ req' \in [Requests -> [at : Places, conn : 0..MaxConns, first : 0..MaxConns]]
  BY DEF Goto, PoolInv, PoolType, Places
<1>2. PoolType'
  BY <1>1 DEF PoolInv, PoolType
<1>3. OneDials' /\ Tries' /\ RetryUsesAnother' /\ NothingOrphaned'
  BY <1>1 DEF PoolInv, OneDials, Tries, RetryUsesAnother, NothingOrphaned
<1> QED BY <1>2, <1>3 DEF PoolInv

\* Evicting closes the connection of the request, and empties the pool only of that.
LEMMA EvictPool ==
  ASSUME PoolInv, NEW r \in Requests, Evict(r)
  PROVE  PoolInv'
<1>1. /\ req[r].at = "evict" /\ lock = {} /\ UNCHANGED <<redials, lock, closed>>
      /\ pool' = IF pool = req[r].conn THEN 0 ELSE pool
      /\ ours' = ours \ {req[r].conn} /\ alive' = alive \ {req[r].conn}
  BY DEF Evict, Remaining
<1>2. req[r].conn \in Conns
  BY <1>1 DEF PoolInv, Tries
<1>3. /\ req'[r].at \in {"get", "idle"} /\ req' \in [Requests -> [at : Places, conn : 0..MaxConns,
                                                                  first : 0..MaxConns]]
      /\ req'[r].at = "get" => req'[r].first = req[r].conn
      /\ \A q \in Requests \ {r} : req'[q] = req[q]
  BY <1>2, PoolAssumption DEF Evict, PoolInv, PoolType, NoRequest, Conns, Places
<1>4. pool' # req[r].conn
  BY <1>1, <1>2, PoolAssumption DEF Conns
<1>5. PoolType'
  <2>1. pool' \in 0..MaxConns /\ lock' \in SUBSET Requests
    BY <1>1, PoolAssumption DEF PoolInv, PoolType
  <2>2. ours' \in SUBSET Conns /\ alive' \in SUBSET Conns
    BY <1>1 DEF PoolInv, PoolType
  <2> QED BY <1>1, <1>3, <2>1, <2>2 DEF PoolInv, PoolType
<1>6. OneDials' /\ RetryUsesAnother'
  BY <1>1, <1>3 DEF PoolInv, OneDials, RetryUsesAnother
<1>7. Tries'
  BY <1>1, <1>3, <1>4 DEF PoolInv, Tries
<1>8. NothingOrphaned'
  BY <1>1 DEF PoolInv, NothingOrphaned
<1> QED BY <1>5, <1>6, <1>7, <1>8 DEF PoolInv

\* Every step of a request keeps the pool.
LEMMA ServePool ==
  ASSUME PoolInv, NEW r \in Requests, Serve(r)
  PROVE  PoolInv'
  BY GetPooledPool, GetByDiallingPool, DialledPool, FailsPool, GotoPool, EvictPool
     DEF Serve, DialFailed, StreamOpened, WriteFailed, OpenFailed

\* Closing the dialer leaves no connection behind: nobody is dialling.
LEMMA ClosePool ==
  ASSUME PoolInv, Close
  PROVE  PoolInv'
<1>1. PoolType'
  <2>1. pool' \in 0..MaxConns
    BY PoolAssumption DEF Close
  <2> QED BY <2>1 DEF Close, PoolInv, PoolType
<1>2. \A r \in Requests : req[r].at # "dial"
  BY DEF Close, PoolInv, OneDials
<1>3. OneDials' /\ Tries' /\ RetryUsesAnother' /\ NothingOrphaned'
  BY <1>2 DEF Close, PoolInv, OneDials, Tries, RetryUsesAnother, NothingOrphaned
<1> QED BY <1>1, <1>3 DEF PoolInv

\* Connections that are lost, or end with the node, leave the rest as it is.
LEMMA LostPool ==
  ASSUME PoolInv, alive' \in SUBSET alive, ours' \in SUBSET ours,
         UNCHANGED <<redials, pool, lock, req, closed>>
  PROVE  PoolInv'
  BY DEF PoolInv, PoolType, OneDials, Tries, NothingOrphaned,
         RetryUsesAnother

-----------------------------------------------------------------------------
\* Every step of the proxy is one of these for the pool.
LEMMA ProxyPool == PoolInv /\ [ProxyNext]_allVars => PoolInv'
<1> SUFFICES ASSUME PoolInv, [ProxyNext]_allVars PROVE PoolInv'
  OBVIOUS
<1>1. ASSUME NEW r \in Requests, Accept(r) PROVE PoolInv'
  BY <1>1, RequestPool DEF Accept
<1>2. ASSUME NEW r \in Requests, OpenStream(r) PROVE PoolInv'
  BY <1>2, ServePool DEF OpenStream
<1>3. CASE UNCHANGED vars
  BY <1>3 DEF vars, PoolInv, PoolType, OneDials, Tries, NothingOrphaned, RetryUsesAnother
<1>4. ASSUME NEW r \in Requests, LocalShuts(r) \/ FarEnds(r) PROVE PoolInv'
  BY <1>3, <1>4 DEF LocalShuts, FarEnds
<1>5. ASSUME NEW r \in Requests, UpEnds(r) \/ DownEnds(r) PROVE PoolInv'
  <2>1. Fails(r) \/ UNCHANGED req
    BY <1>5 DEF UpEnds, DownEnds, PumpEnds
  <2>2. UNCHANGED <<redials, pool, lock, ours, alive, closed>>
    BY <1>5 DEF UpEnds, DownEnds
  <2> QED BY <1>3, <2>1, <2>2, FailsPool DEF vars
<1>6. CASE BeginStop \/ Stopped
  BY <1>3, <1>6 DEF BeginStop, Stopped
<1>7. CASE CloseDialer
  BY <1>7, ClosePool DEF CloseDialer
<1>8. CASE NodeStops
  BY <1>8, LostPool DEF NodeStops
<1>9. CASE ConnectionDies
  BY <1>9, LostPool DEF ConnectionDies
<1> QED BY <1>1, <1>2, <1>3, <1>4, <1>5, <1>6, <1>7, <1>8, <1>9 DEF ProxyNext, allVars

\* One connection to the gateway at most, which the pool knows.
THEOREM NoneOrphaned == ProxySpec => []NothingOrphaned
<1>1. PoolInv => NothingOrphaned
  BY DEF PoolInv
<1> QED BY <1>1, PoolInit, ProxyPool, PTL DEF ProxySpec, ProxyInit

\* The second attempt of a request is never made on the connection that failed.
THEOREM RetriesUseAnother == ProxySpec => []RetryUsesAnother
<1>1. PoolInv => RetryUsesAnother
  BY DEF PoolInv
<1> QED BY <1>1, PoolInit, ProxyPool, PTL DEF ProxySpec, ProxyInit

-----------------------------------------------------------------------------
\* What a served request leaves: its place, and the pool if it is not closed.
LEMMA ServeMoves ==
  ASSUME PoolInv, NEW r \in Requests, Serve(r)
  PROVE  /\ InFlight(r) /\ UNCHANGED closed
         /\ req'[r].at \in {"idle", "stream"} \/ InFlight(r)'
         /\ \A q \in Requests \ {r} : req'[q] = req[q]
  BY DEF Serve, GetPooled, GetByDialling, Dialled, DialFailed, StreamOpened, WriteFailed,
         OpenFailed, Evict, Goto, Fails, NoRequest, InFlight, PoolInv, PoolType

\* Before anything is accepted nothing is in flight.
LEMMA ProxyInitInv == ProxyInit => ProxyInv
<1> SUFFICES ASSUME ProxyInit PROVE ProxyInv
  OBVIOUS
<1>1. \A r \in Requests : link[r] = NoLink /\ req[r].at = "idle"
  BY DEF ProxyInit, Init, NoRequest
<1>2. LinkType
  BY DEF ProxyInit, LinkType, NoLink
<1>3. Handlers
  BY <1>1 DEF Handlers, InFlight, NoLink
<1>4. Stops
  BY DEF ProxyInit, Init, Stops
<1> QED BY <1>2, <1>3, <1>4, PoolInit DEF ProxyInv, ProxyInit

\* An accepted connection has a handler.
LEMMA AcceptInv ==
  ASSUME ProxyInv, NEW r \in Requests, Accept(r)
  PROVE  LinkType' /\ Handlers' /\ Stops'
  BY DEF Accept, Request, NoRequest, NoLink, ProxyInv, LinkType, Handlers, Stops, InFlight,
         PoolInv, PoolType

\* A handler that gets its stream starts both pumps; one that does not is over.
LEMMA OpenStreamInv ==
  ASSUME ProxyInv, NEW r \in Requests, OpenStream(r)
  PROVE  LinkType' /\ Handlers' /\ Stops'
<1>1. /\ InFlight(r) /\ UNCHANGED <<closed, waits, proxy>>
      /\ req'[r].at \in {"idle", "stream"} \/ InFlight(r)'
      /\ \A q \in Requests \ {r} : req'[q] = req[q]
  BY ServeMoves DEF OpenStream, ProxyInv
<1>2. /\ req'[r].at = "idle" => link' = [link EXCEPT ![r] = NoLink]
      /\ req'[r].at = "stream" => link' = [link EXCEPT ![r].up = "on", ![r].down = "on"]
      /\ InFlight(r)' => link' = link
  BY DEF OpenStream, InFlight
<1>3. LinkType'
  BY <1>1, <1>2 DEF ProxyInv, LinkType, NoLink
<1>4. Handlers'
  BY <1>1, <1>2 DEF ProxyInv, LinkType, Handlers, InFlight, NoLink
<1>5. Stops'
  BY <1>1 DEF ProxyInv, Stops, Handlers
<1> QED BY <1>3, <1>4, <1>5

\* A pump that ends: the handler goes on, or returns.
LEMMA PumpEffect ==
  ASSUME ProxyInv, NEW r \in Requests, UpEnds(r) \/ DownEnds(r)
  PROVE  LET l == IF UpEnds(r) THEN [link[r] EXCEPT !.up = "done"]
                  ELSE [link[r] EXCEPT !.down = "done", !.local = "closed"]
         IN  /\ req[r].at = "stream" /\ UNCHANGED <<closed, pool, waits, proxy>>
             /\ \/ link' = [link EXCEPT ![r] = l] /\ UNCHANGED req
                \/ /\ link' = [link EXCEPT ![r] = Returned(l)]
                   /\ req' = [req EXCEPT ![r] = NoRequest]
  BY DEF UpEnds, DownEnds, PumpEnds, LocalAfter, Fails, ProxyInv, Handlers

\* When a pump ends the handler closes the local connection, and returns after both.
LEMMA PumpInv ==
  ASSUME ProxyInv, NEW r \in Requests, UpEnds(r) \/ DownEnds(r)
  PROVE  LinkType' /\ Handlers' /\ Stops'
<1> DEFINE l == IF UpEnds(r) THEN [link[r] EXCEPT !.up = "done"]
                ELSE [link[r] EXCEPT !.down = "done", !.local = "closed"]
           Kinds == [local : {"none", "open", "shut", "closed"}, up : {"off", "on", "done"},
                     down : {"off", "on", "done"}, far : {"open", "ended"}]
<1>1. l \in Kinds /\ (link[r].local \in {"none", "closed"} => l.local \in {"none", "closed"})
  BY DEF ProxyInv, LinkType
<1>2. /\ Returned(l) \in Kinds /\ Returned(l).up = "off" /\ Returned(l).down = "off"
      /\ Returned(l).local = IF l.local = "closed" THEN "none" ELSE l.local
  BY <1>1 DEF Returned, NoLink
<1>3. /\ req[r].at = "stream" /\ UNCHANGED <<closed, pool, waits, proxy>>
      /\ \/ link' = [link EXCEPT ![r] = l] /\ UNCHANGED req
         \/ link' = [link EXCEPT ![r] = Returned(l)] /\ req' = [req EXCEPT ![r] = NoRequest]
  BY PumpEffect
<1> HIDE DEF l
<1>4. /\ link' \in [Requests -> Kinds]
      /\ \A q \in Requests \ {r} : req'[q] = req[q] /\ link'[q] = link[q]
      /\ \/ link'[r] = l /\ req'[r].at = "stream"
         \/ link'[r] = Returned(l) /\ req'[r].at = "idle"
  BY <1>1, <1>2, <1>3 DEF ProxyInv, LinkType, PoolInv, PoolType, NoRequest
<1>5. LinkType'
  BY <1>3, <1>4 DEF ProxyInv, LinkType
<1>6. Handlers'
  BY <1>2, <1>4 DEF ProxyInv, Handlers, InFlight
<1>7. Stops'
  BY <1>1, <1>2, <1>3, <1>4 DEF ProxyInv, Stops
<1> QED BY <1>5, <1>6, <1>7

\* Every step of proxy, pool, peers and node keeps all of it.
LEMMA ProxyNextInv == ProxyInv /\ [ProxyNext]_allVars => ProxyInv'
<1> SUFFICES ASSUME ProxyInv, [ProxyNext]_allVars PROVE LinkType' /\ Handlers' /\ Stops'
  BY ProxyPool DEF ProxyInv
<1>1. ASSUME NEW r \in Requests, LocalShuts(r) PROVE LinkType' /\ Handlers' /\ Stops'
  BY <1>1 DEF LocalShuts, vars, ProxyInv, LinkType, Handlers, Stops, InFlight
<1>2. ASSUME NEW r \in Requests, FarEnds(r) PROVE LinkType' /\ Handlers' /\ Stops'
  BY <1>2 DEF FarEnds, vars, ProxyInv, LinkType, Handlers, Stops, InFlight
<1>3. CASE BeginStop
  BY <1>3 DEF BeginStop, vars, ProxyInv, LinkType, Handlers, Stops, InFlight
<1>4. CASE Stopped
  BY <1>4 DEF Stopped, WaitClosed, vars, ProxyInv, LinkType, Handlers, Stops, InFlight
<1>5. CASE CloseDialer
  BY <1>5 DEF CloseDialer, Close, proxyVars, ProxyInv, LinkType, Handlers, Stops, InFlight
<1>6. CASE NodeStops
  BY <1>6 DEF NodeStops, ProxyInv, LinkType, Handlers, Stops, InFlight
<1>7. CASE ConnectionDies /\ UNCHANGED proxyVars
  BY <1>7 DEF ConnectionDies, proxyVars, ProxyInv, LinkType, Handlers, Stops, InFlight
<1>8. CASE UNCHANGED allVars
  BY <1>8 DEF allVars, vars, proxyVars, ProxyInv, LinkType, Handlers, Stops, InFlight
<1> QED BY <1>1, <1>2, <1>3, <1>4, <1>5, <1>6, <1>7, <1>8, AcceptInv, OpenStreamInv, PumpInv
        DEF ProxyNext

\* With a server that waits for its connections, closing the dialer finds no
\* request that could dial again, so none ever does.
THEOREM NoneDialsAfterClose == ProxySpec => []NothingDialsAfterClose
<1>1. ProxyInv => NothingDialsAfterClose
  BY DEF ProxyInv, PoolInv, PoolType, Places, Stops, Handlers, InFlight, NothingDialsAfterClose
<1> QED BY <1>1, ProxyInitInv, ProxyNextInv, PTL DEF ProxySpec

-----------------------------------------------------------------------------
(* RemoteApi                                                               *)

Features == {"history", "global_search"}
Outcomes == {"none", "ok", "error", "unsupported", "protocol error", "warming", "degraded"}

TypeOK ==
  /\ server \in Answers /\ snap \in 1..MaxSnap
  /\ cache \in [value : Answers, checked : BOOLEAN]
  /\ cmd \in [feature : Features \cup {"none"}, at : {"none", "capabilities", "first", "more"},
              all : BOOLEAN, start : 1..Pages, seen : SUBSET Cursors,
              next : Cursors \cup {NoPage}, first : Answered \cup {NoAnswer},
              got : SUBSET Answered, twice : SUBSET (1..Pages), stray : BOOLEAN,
              end : Outcomes]
  /\ cmd.at # "none" => cmd.feature \in Features /\ cmd.end = "none"
  /\ cmd.at = "more" => cmd.first \in Answered /\ cmd.next \in Cursors /\ cmd.all

\* What is kept for good was no passing state, and of the same kind of server
\* as the one that answers now.
CacheHonest ==
  cache.checked => /\ ~Transient(cache.value)
                   /\ server \in Canonical <=> cache.value \in Canonical

\* A command is told "unsupported" by no canonical server.
Honest == TypeOK /\ CacheHonest /\ TemporaryIsRetryable

-----------------------------------------------------------------------------
\* The cursors m to n of the snapshot the collection began with.
CursorsOf(m, n) == {[snap |-> cmd.first.snap, at |-> i] : i \in m..n}

\* h is the last page the collection has reached, from its start and in order.
Reached(h) ==
  /\ h \in cmd.start..Pages
  /\ CursorsOf(cmd.start + 1, h) \subseteq cmd.seen
  /\ cmd.start # 1 => CursorsOf(cmd.start, cmd.start) \subseteq cmd.seen

\* What has been taken are the pages from the start to h, each once, but for the
\* page that was asked for without a cursor.
Once == cmd.twice \subseteq IF cmd.stray THEN {1} ELSE {}
UpTo(h) == {page.at : page \in cmd.got} = cmd.start..h /\ Once

\* The collection is whole so far and goes on with the page after h.
OnTrack(h) ==
  /\ Reached(h) /\ h < Pages /\ UpTo(h)
  /\ cmd.next = [snap |-> cmd.first.snap, at |-> h + 1]

\* The server has sent a cursor that goes back: what lies between it and the end
\* holds one that has been seen, unless it is the very first page that is asked
\* for again.
Astray(h) ==
  /\ Reached(h) /\ cmd.stray
  /\ cmd.next.snap = cmd.first.snap /\ cmd.next.at \in 1..h
  /\ cmd.start = 1 => UpTo(h)

Collecting ==
  cmd.at = "more" /\ OneSnapshot => \E h \in 1..Pages : OnTrack(h) \/ Astray(h)

\* Pages that name their snapshot agree with a first page that does.
Agree == cmd.first.named => \A page \in cmd.got : page.named => page.snap = cmd.first.snap

\* A collection that has ended well.
Ended == cmd.end = "ok" /\ cmd.all /\ OneSnapshot => UpTo(Pages)

\* Nothing has been collected before the first page.
Fresh == cmd.at \in {"capabilities", "first"} => cmd.got = {} /\ cmd.twice = {} /\ ~cmd.stray

WholeInv == TypeOK /\ Fresh /\ Collecting /\ Agree /\ Ended

-----------------------------------------------------------------------------
\* What a canonical server does not advertise it says the state of.
LEMMA CanonicalFields ==
  ASSUME NEW c \in Canonical
  PROVE  /\ c.history \in {0, 2} /\ c.global_search \in {0, 1}
         /\ c.history = 0 =>
              \/ c.history_ready = "no"
              \/ c.history_ready = "unset" /\ c.search_state = "warming"
              \/ c.history_ready = "unset" /\ c.search_state = "unavailable" /\ c.schema_version = 2
         /\ c.global_search = 0 =>
              \/ c.search_state \in {"warming", "degraded"}
              \/ c.search_state = "unavailable" /\ (c.schema_version = 2 \/ c.history = 2)
<1>1. CASE c \in Booting
  BY <1>1 DEF Booting, Answer
<1>2. CASE c \in Indexing
  BY <1>2 DEF Indexing, Answer
<1>3. CASE c \in Complete
  BY <1>3 DEF Complete, Answer
<1>4. CASE c \in Degraded
  BY <1>4 DEF Degraded, Answer
<1> QED BY <1>1, <1>2, <1>3, <1>4 DEF Canonical

\* A server with the whole API is never taken for one without.
LEMMA CanonicalIsRetryable ==
  ASSUME NEW c \in Canonical, NEW f \in Features
  PROVE  Required(c, f) # "unsupported"
<1>1. CASE f = "history"
  BY <1>1, CanonicalFields DEF Required, ReadinessOf, CanonicalV2, Minimum, Malformed
<1>2. CASE f = "global_search"
  BY <1>2, CanonicalFields DEF Required, ReadinessOf, CanonicalV2, Minimum, Malformed
<1> QED BY <1>1, <1>2 DEF Features

\* Whatever _require_feature raises ends the command.
LEMMA RequiredType ==
  ASSUME NEW c \in Answers, NEW f \in Features
  PROVE  Required(c, f) \in {"ok", "unsupported", "protocol error", "warming", "degraded"}
  BY DEF Answers, Canonical, Booting, Indexing, Complete, Degraded, Old, Odd, Legacy, Answer,
         Features, Required, ReadinessOf, CanonicalV2, Minimum, Malformed

-----------------------------------------------------------------------------
\* The state is of the declared type in every behaviour.
LEMMA AnswersType == Legacy \in Answers /\ Canonical \subseteq Answers
  BY DEF Answers, Old

\* What is cached is an answer, checked unless it was transient.
LEMMA CachedType ==
  ASSUME NEW c \in Answers
  PROVE  /\ Cached(c) \in [value : Answers, checked : BOOLEAN]
         /\ Cached(c).value = c /\ Cached(c).checked = ~Transient(c)
  BY DEF Cached, Transient

\* An exception leaves a command that has ended and holds nothing.
LEMMA EndsEffect ==
  ASSUME NEW how, Ends(how)
  PROVE  /\ cmd'.feature = cmd.feature /\ cmd'.at = "none" /\ cmd'.end = how /\ cmd'.all = FALSE
         /\ cmd' \in [feature : {cmd.feature}, at : {"none"}, all : {FALSE}, start : {1}, seen : {{}},
                      next : {NoPage}, first : {NoAnswer}, got : {{}}, twice : {{}}, stray : {FALSE},
                      end : {how}]
<1>1. cmd' = [NoCommand EXCEPT !.feature = cmd.feature, !.end = how]
  BY DEF Ends
<1>2. NoCommand \in [feature : {"none"}, at : {"none"}, all : {FALSE}, start : {1}, seen : {{}},
                     next : {NoPage}, first : {NoAnswer}, got : {{}}, twice : {{}}, stray : {FALSE},
                     end : {"none"}]
  BY DEF NoCommand
<1> QED BY <1>1, <1>2

\* The cache and the server are well typed before the first command.
LEMMA InitType == ApiInit => TypeOK
<1> SUFFICES ASSUME ApiInit PROVE TypeOK
  OBVIOUS
<1>2. server \in Answers /\ snap \in 1..MaxSnap
  BY ApiAssumption DEF ApiInit
<1>1. cache \in [value : Answers, checked : BOOLEAN]
  <2>1. [value |-> Legacy, checked |-> FALSE] \in [value : Answers, checked : BOOLEAN]
    BY AnswersType
  <2> QED BY <1>2, <2>1, CachedType DEF ApiInit
<1>3. cmd = NoCommand
  BY DEF ApiInit
<1> QED BY <1>1, <1>2, <1>3, ApiAssumption DEF TypeOK, NoCommand, Outcomes

\* An exception keeps the types.
LEMMA EndsType ==
  ASSUME TypeOK, NEW how \in Outcomes, Ends(how),
         server' \in Answers, snap' = snap, cache' \in [value : Answers, checked : BOOLEAN]
  PROVE  TypeOK'
<1>1. 1 \in 1..Pages /\ cmd.feature \in Features \cup {"none"}
  BY ApiAssumption DEF TypeOK
<1>2. cmd' \in [feature : Features \cup {"none"}, at : {"none", "capabilities", "first", "more"},
                all : BOOLEAN, start : 1..Pages, seen : SUBSET Cursors,
                next : Cursors \cup {NoPage}, first : Answered \cup {NoAnswer},
                got : SUBSET Answered, twice : SUBSET (1..Pages), stray : BOOLEAN,
                end : Outcomes]
  BY <1>1, EndsEffect
<1>3. cmd'.at = "none"
  BY EndsEffect
<1> QED BY <1>2, <1>3 DEF TypeOK

\* What adding a page does to the part of the command that the collection is about.
LEMMA ContinueEffect ==
  ASSUME TypeOK, NEW page, NEW cursor, NEW first, NEW seen, Continue(page, cursor, first, seen)
  PROVE  /\ cmd'.all = cmd.all /\ cmd'.start = cmd.start
         /\ cmd'.got = cmd.got \cup {page} /\ cmd'.first = first
         /\ cmd'.twice = IF Taken(page) THEN cmd.twice \cup {page.at} ELSE cmd.twice
         /\ (cmd'.stray <=> cmd.stray \/ cursor # After(page))
         /\ cmd'.at \in {"more", "none"} /\ cmd'.end \in {"none", "ok"}
         /\ ~cmd.all \/ cursor = NoPage => cmd'.at = "none" /\ cmd'.end = "ok"
  BY DEF Continue, TypeOK

\* It goes on as long as there is a cursor and every page is asked for.
LEMMA ContinueGoesOn ==
  ASSUME TypeOK, NEW page, NEW cursor, NEW first, NEW seen, Continue(page, cursor, first, seen),
         cmd.all, cursor # NoPage
  PROVE  cmd'.at = "more" /\ cmd'.end = "none" /\ cmd'.next = cursor /\ cmd'.seen = seen
  BY DEF Continue, TypeOK

\* A page that is kept keeps the types.
LEMMA ContinueType ==
  ASSUME TypeOK, cmd.at # "none", NEW page \in Answered, NEW cursor \in Cursors \cup {NoPage},
         NEW first \in Answered, NEW seen \in SUBSET Cursors,
         Continue(page, cursor, first, seen), UNCHANGED <<server, snap, cache>>
  PROVE  TypeOK'
<1> DEFINE more == cmd.all /\ cursor # NoPage
           twice == IF Taken(page) THEN cmd.twice \cup {page.at} ELSE cmd.twice
           stray == cmd.stray \/ cursor # After(page)
<1>1. cmd' = [cmd EXCEPT !.at = IF more THEN "more" ELSE "none",
                         !.end = IF more THEN "none" ELSE "ok",
                         !.got = @ \cup {page}, !.twice = twice, !.stray = stray,
                         !.next = IF more THEN cursor ELSE NoPage,
                         !.first = first, !.seen = IF more THEN seen ELSE {}]
  BY DEF Continue
<1>2. more \in BOOLEAN /\ stray \in BOOLEAN
  BY DEF TypeOK
<1>3. twice \in SUBSET (1..Pages)
  BY DEF TypeOK, Answered
<1> HIDE DEF twice, stray
<1> QED BY <1>1, <1>2, <1>3, ZenonT(60) DEF TypeOK, Outcomes

\* The check before the request keeps the types.
LEMMA CheckType ==
  ASSUME TypeOK, NEW c \in Answers, cmd.at = "capabilities", Check(c),
         server' \in Answers, snap' = snap, cache' \in [value : Answers, checked : BOOLEAN]
  PROVE  TypeOK'
<1>1. cmd.feature \in Features
  BY DEF TypeOK
<1>2. CASE Required(c, cmd.feature) = "ok"
  BY <1>1, <1>2 DEF Check, TypeOK
<1>3. CASE Required(c, cmd.feature) # "ok"
  BY <1>1, <1>3, RequiredType, EndsType DEF Check, Outcomes
<1> QED BY <1>2, <1>3

\* The cursor that comes with a page is the next one of its snapshot, or none, or
\* one that goes back.
LEMMA SentType ==
  ASSUME NEW page \in Answered
  PROVE  /\ Sent(page) \subseteq Cursors \cup {NoPage} /\ NoPage \notin Cursors
         /\ After(page) \in Sent(page)
         /\ page.at = Pages <=> After(page) = NoPage
         /\ page.at < Pages => After(page) = [snap |-> page.snap, at |-> page.at + 1]
         /\ \A cursor \in Sent(page) :
              \/ cursor = After(page)
              \/ cursor \in Cursors /\ cursor.snap = page.snap /\ cursor.at <= page.at
<1>1. page.snap \in 1..MaxSnap /\ page.at \in 1..Pages
  BY DEF Answered
<1>2. NoPage \notin Cursors
  BY DEF NoPage, Cursors
<1>3. page.at < Pages => [snap |-> page.snap, at |-> page.at + 1] \in Cursors
  BY <1>1, ApiAssumption DEF Cursors
<1>4. /\ page.at = Pages <=> After(page) = NoPage
      /\ page.at < Pages => After(page) = [snap |-> page.snap, at |-> page.at + 1]
  BY <1>1, <1>2, <1>3, ApiAssumption DEF After
<1> QED BY <1>1, <1>2, <1>3, <1>4, ApiAssumption DEF Sent

\* The answer breaks the contract: a cursor again, or a page of another snapshot.
Refuses == Ends("protocol error")

\* A page is of the place its cursor names; it is refused if it names a snapshot
\* other than the one the first page named.
LEMMA NextPageAdds ==
  ASSUME TypeOK, NextPage, ~Refuses
  PROVE  /\ ~Repeated(cmd.next) /\ cmd.seen \cup {cmd.next} \in SUBSET Cursors
         /\ \E page \in Answered : \E cursor \in Sent(page) :
              /\ page.at = cmd.next.at /\ ~Changed(page)
              /\ page.snap = cmd.next.snap \/ page.snap = snap
              /\ Continue(page, cursor, cmd.first, cmd.seen \cup {cmd.next})
<1>1. ~Repeated(cmd.next)
  BY DEF NextPage, Refuses
<1>2. PICK named \in BOOLEAN, of \in {cmd.next.snap, snap} :
        \E cursor \in Sent([snap |-> of, at |-> cmd.next.at, named |-> named]) :
          IF Changed([snap |-> of, at |-> cmd.next.at, named |-> named]) THEN Refuses
          ELSE Continue([snap |-> of, at |-> cmd.next.at, named |-> named], cursor, cmd.first,
                        cmd.seen \cup {cmd.next})
  BY <1>1 DEF NextPage, Refuses
<1> DEFINE page == [snap |-> of, at |-> cmd.next.at, named |-> named]
<1>3. cmd.next \in Cursors /\ cmd.seen \in SUBSET Cursors /\ snap \in 1..MaxSnap
  BY DEF NextPage, TypeOK
<1>4. page \in Answered
  BY <1>3 DEF Cursors, Answered
<1>5. page.at = cmd.next.at /\ (page.snap = cmd.next.snap \/ page.snap = snap)
  OBVIOUS
<1>6. \E cursor \in Sent(page) : IF Changed(page) THEN Refuses
                                 ELSE Continue(page, cursor, cmd.first, cmd.seen \cup {cmd.next})
  BY <1>2
<1>7. cmd.seen \cup {cmd.next} \in SUBSET Cursors
  BY <1>3
<1> HIDE DEF page
<1> QED BY <1>1, <1>4, <1>5, <1>6, <1>7

\* The first page is of the place the query asked for.
LEMMA FirstPageAdds ==
  ASSUME TypeOK, FirstPage
  PROVE  \E page \in Answered : \E cursor \in Sent(page), seen \in SUBSET Cursors :
           /\ page.at = cmd.start /\ Continue(page, cursor, page, seen)
           /\ cmd.start # 1 => [snap |-> page.snap, at |-> page.at] \in seen
<1>1. PICK named \in BOOLEAN :
        \E cursor \in Sent([snap |-> snap, at |-> cmd.start, named |-> named]) :
          Continue([snap |-> snap, at |-> cmd.start, named |-> named], cursor,
                   [snap |-> snap, at |-> cmd.start, named |-> named],
                   IF cmd.start = 1 THEN {} ELSE {[snap |-> snap, at |-> cmd.start]})
  BY DEF FirstPage
<1> DEFINE page == [snap |-> snap, at |-> cmd.start, named |-> named]
           seen == IF cmd.start = 1 THEN {} ELSE {[snap |-> snap, at |-> cmd.start]}
<1>2. page \in Answered /\ seen \in SUBSET Cursors
  BY DEF TypeOK, Cursors, Answered
<1>3. \E cursor \in Sent(page) : Continue(page, cursor, page, seen)
  BY <1>1
<1>4. page.at = cmd.start /\ (cmd.start # 1 => [snap |-> page.snap, at |-> page.at] \in seen)
  OBVIOUS
<1> HIDE DEF page, seen
<1> QED BY <1>2, <1>3, <1>4

\* Every step keeps the types.
LEMMA NextType == TypeOK /\ [ApiNext]_apiVars => TypeOK'
<1> SUFFICES ASSUME TypeOK, [ApiNext]_apiVars PROVE TypeOK'
  OBVIOUS
<1>1. ASSUME NEW feature \in Features, Asks(feature) PROVE TypeOK'
  BY <1>1, ApiAssumption, ZenonT(60) DEF Asks, Command, NoCommand, TypeOK, Features, Outcomes
<1>2. CASE FromCache
  BY <1>2, CheckType DEF FromCache, TypeOK
<1>3. CASE FromServer
  BY <1>3, CheckType, CachedType DEF FromServer, TypeOK
<1>4. CASE FirstPage
  <2>1. cmd.at # "none" /\ UNCHANGED <<server, snap, cache>>
    BY <1>4 DEF FirstPage
  <2> QED BY <1>4, <2>1, FirstPageAdds, SentType, ContinueType
<1>5. CASE NextPage
  <2>1. CASE Refuses
    BY <1>5, <2>1, EndsType DEF NextPage, TypeOK, Outcomes, Refuses
  <2>2. CASE ~Refuses
    <3>1. cmd.at # "none" /\ UNCHANGED <<server, snap, cache>> /\ cmd.first \in Answered
      BY <1>5 DEF NextPage, TypeOK
    <3> QED BY <1>5, <2>2, <3>1, NextPageAdds, SentType, ContinueType
  <2> QED BY <2>1, <2>2
<1>6. CASE RequestFails
  BY <1>6, EndsType DEF RequestFails, TypeOK, Outcomes
<1>7. CASE ServerAdvances
  BY <1>7, AnswersType DEF ServerAdvances, TypeOK, Canonical
<1>8. CASE DataChange
  BY <1>8, ApiAssumption DEF DataChange, TypeOK
<1>9. CASE UNCHANGED apiVars
  BY <1>9 DEF apiVars, TypeOK
<1> QED BY <1>1, <1>2, <1>3, <1>4, <1>5, <1>6, <1>7, <1>8, <1>9 DEF ApiNext, Works, Features

\* TypeOK holds in every reachable state of the client and its server.
THEOREM TypeCorrect == ApiSpec => []TypeOK
  BY InitType, NextType, PTL DEF ApiSpec

-----------------------------------------------------------------------------
\* Every step keeps the answers of a command honest.  A canonical server stays one.
LEMMA CanonicalStays ==
  ServerAdvances => server \in Canonical /\ server' \in Canonical
  BY DEF ServerAdvances, Canonical

\* What Check ends with, of a canonical server, can be retried.
LEMMA CheckHonest ==
  ASSUME TypeOK, cmd.at = "capabilities", NEW c \in Answers, Check(c),
         server' \in Canonical => c \in Canonical
  PROVE  TemporaryIsRetryable'
<1>1. cmd.feature \in Features /\ cmd.end = "none"
  BY DEF TypeOK
<1>2. CASE Required(c, cmd.feature) = "ok"
  <2>1. cmd' = [cmd EXCEPT !.at = "first"]
    BY <1>2 DEF Check
  <2>2. cmd'.end = "none"
    BY <1>1, <2>1 DEF TypeOK
  <2> QED BY <2>2 DEF TemporaryIsRetryable
<1>3. CASE Required(c, cmd.feature) # "ok"
  <2>1. cmd'.end = Required(c, cmd.feature)
    BY <1>3, EndsEffect DEF Check
  <2> QED BY <1>1, <2>1, CanonicalIsRetryable DEF TemporaryIsRetryable
<1> QED BY <1>2, <1>3

\* A cache that is empty, or was just filled, says what the server said.
LEMMA InitHonest == ApiInit => Honest
<1> SUFFICES ASSUME ApiInit PROVE CacheHonest /\ TemporaryIsRetryable
  BY InitType DEF Honest
<1>1. ASSUME cache = Cached(server) PROVE CacheHonest
  <2>1. cache.value = server /\ cache.checked = ~Transient(server)
    BY <1>1, CachedType DEF ApiInit
  <2> QED BY <2>1 DEF CacheHonest
<1>2. ASSUME cache = [value |-> Legacy, checked |-> FALSE] PROVE CacheHonest
  <2>1. ~cache.checked
    BY <1>2
  <2> QED BY <2>1 DEF CacheHonest
<1>3. TemporaryIsRetryable
  BY DEF ApiInit, NoCommand, TemporaryIsRetryable
<1> QED BY <1>1, <1>2, <1>3 DEF ApiInit

\* Every step keeps the cache honest.
LEMMA NextHonest == Honest /\ [ApiNext]_apiVars => Honest'
<1> SUFFICES ASSUME Honest, [ApiNext]_apiVars PROVE CacheHonest' /\ TemporaryIsRetryable'
  BY NextType DEF Honest
<1> USE DEF Honest
<1>1. ASSUME NEW feature, Asks(feature) PROVE CacheHonest' /\ TemporaryIsRetryable'
  BY <1>1 DEF Asks, Command, NoCommand, CacheHonest, TemporaryIsRetryable
<1>2. CASE FromCache
  BY <1>2, CheckHonest DEF FromCache, CacheHonest, TypeOK
<1>3. CASE FromServer
  BY <1>3, CheckHonest, CachedType DEF FromServer, CacheHonest, TypeOK
<1>4. CASE RequestFails
  <2>1. cmd'.end = "error"
    BY <1>4, EndsEffect DEF RequestFails
  <2>2. UNCHANGED <<server, cache>>
    BY <1>4 DEF RequestFails
  <2> QED BY <2>1, <2>2 DEF CacheHonest, TemporaryIsRetryable
<1>5. CASE FirstPage \/ NextPage
  <2>1. cmd'.end # "unsupported"
    <3>1. CASE FirstPage
      <4>1. \E page, cursor, seen : Continue(page, cursor, page, seen)
        BY <3>1, FirstPageAdds
      <4> QED BY <4>1, ContinueEffect
    <3>2. CASE NextPage /\ Refuses
      <4>1. cmd'.end = "protocol error"
        BY <3>2, EndsEffect DEF Refuses
      <4> QED BY <4>1
    <3>3. CASE NextPage /\ ~Refuses
      <4>1. \E page, cursor : Continue(page, cursor, cmd.first, cmd.seen \cup {cmd.next})
        BY <3>3, NextPageAdds
      <4> QED BY <4>1, ContinueEffect
    <3> QED BY <1>5, <3>1, <3>2, <3>3
  <2>2. UNCHANGED <<server, cache>>
    BY <1>5 DEF FirstPage, NextPage
  <2> QED BY <2>1, <2>2 DEF CacheHonest, TemporaryIsRetryable
<1>6. CASE ServerAdvances
  BY <1>6, CanonicalStays DEF ServerAdvances, CacheHonest, TemporaryIsRetryable
<1>7. CASE DataChange
  BY <1>7 DEF DataChange, CacheHonest, TemporaryIsRetryable
<1>8. CASE UNCHANGED apiVars
  BY <1>8 DEF apiVars, CacheHonest, TemporaryIsRetryable
<1> QED BY <1>1, <1>2, <1>3, <1>4, <1>5, <1>6, <1>7, <1>8 DEF ApiNext, Works

\* What a canonical server does not have yet is never answered as unsupported,
\* although an early answer may be kept for the life of the client.
THEOREM MissingIsRetryable == ApiSpec => []TemporaryIsRetryable
<1>1. Honest => TemporaryIsRetryable
  BY DEF Honest
<1> QED BY <1>1, InitHonest, NextHonest, PTL DEF ApiSpec

-----------------------------------------------------------------------------

\* What a collection keeps when a page of the snapshot it began with is added.
LEMMA AddsPage ==
  ASSUME WholeInv, NEW page \in Answered, NEW cursor \in Sent(page), NEW first, NEW seen,
         Continue(page, cursor, first, seen),
         ~(first.named /\ page.named /\ page.snap # first.snap),
         first = cmd.first \/ (first = page /\ cmd.got = {})
  PROVE  Fresh' /\ Agree' /\ (OneSnapshot' => page.snap = first.snap)
                /\ (OneSnapshot' /\ first = cmd.first => OneSnapshot)
<1>1. cmd'.got = cmd.got \cup {page} /\ cmd'.first = first /\ cmd'.at \in {"more", "none"}
  BY ContinueEffect DEF WholeInv
<1>2. Fresh'
  BY <1>1 DEF Fresh
<1>3. Agree'
  BY <1>1 DEF WholeInv, Agree
<1>4. OneSnapshot' => page.snap = first.snap
  BY <1>1 DEF OneSnapshot
<1>5. OneSnapshot' /\ first = cmd.first => OneSnapshot
  BY <1>1 DEF OneSnapshot
<1> QED BY <1>2, <1>3, <1>4, <1>5

\* The first page begins a collection, or is all of it.
LEMMA FirstPageWhole ==
  ASSUME WholeInv, FirstPage
  PROVE  Fresh' /\ Agree' /\ Collecting' /\ Ended'
<1> USE ApiAssumption
<1>1. /\ TypeOK /\ cmd.start \in 1..Pages /\ cmd.got = {} /\ cmd.twice = {} /\ ~cmd.stray
      /\ cmd.all \in BOOLEAN
  BY DEF WholeInv, Fresh, FirstPage, TypeOK
<1>2. PICK page \in Answered : \E cursor \in Sent(page), seen \in SUBSET Cursors :
        /\ page.at = cmd.start /\ Continue(page, cursor, page, seen)
        /\ cmd.start # 1 => [snap |-> page.snap, at |-> page.at] \in seen
  BY <1>1, FirstPageAdds
<1>3. PICK cursor \in Sent(page), seen \in SUBSET Cursors :
        /\ page.at = cmd.start /\ Continue(page, cursor, page, seen)
        /\ cmd.start # 1 => [snap |-> page.snap, at |-> page.at] \in seen
  BY <1>2
<1>4. Fresh' /\ Agree'
  BY <1>1, <1>3, AddsPage
<1>5. /\ cmd'.all = cmd.all /\ cmd'.start = cmd.start /\ cmd'.got = {page} /\ cmd'.first = page
      /\ cmd'.twice = {} /\ (cmd'.stray <=> cursor # After(page))
  BY <1>1, <1>3, ContinueEffect DEF Taken
<1>6. UpTo(cmd.start)'
  BY <1>1, <1>3, <1>5 DEF UpTo, Once
<1>7. CASE cmd.all /\ cursor # NoPage
  <2>1. cmd'.at = "more" /\ cmd'.end = "none" /\ cmd'.next = cursor /\ cmd'.seen = seen
    BY <1>1, <1>3, <1>7, ContinueGoesOn
  <2>2. Reached(cmd.start)'
    BY <1>1, <1>3, <1>5, <2>1 DEF Reached, CursorsOf
  <2>3. CASE cursor = After(page)
    <3>1. cmd.start < Pages /\ cursor = [snap |-> page.snap, at |-> cmd.start + 1]
      BY <1>1, <1>3, <1>7, <2>3, SentType
    <3>2. OnTrack(cmd.start)'
      BY <1>5, <1>6, <2>1, <2>2, <3>1 DEF OnTrack
    <3> QED BY <1>1, <1>4, <1>5, <2>1, <3>2 DEF Collecting, Ended
  <2>4. CASE cursor # After(page)
    <3>1. cursor \in Cursors /\ cursor.snap = page.snap /\ cursor.at <= page.at
      BY <1>3, <2>4, SentType
    <3>2. cursor.at \in 1..cmd.start
      BY <1>1, <1>3, <3>1 DEF Cursors
    <3>3. Astray(cmd.start)'
      BY <1>5, <1>6, <2>1, <2>2, <2>4, <3>1, <3>2 DEF Astray
    <3> QED BY <1>1, <1>4, <1>5, <2>1, <3>3 DEF Collecting, Ended
  <2> QED BY <2>3, <2>4
<1>8. CASE cmd.all /\ cursor = NoPage
  <2>1. cmd'.at = "none"
    BY <1>1, <1>3, <1>8, ContinueEffect
  <2>2. cmd.start = Pages
    BY <1>1, <1>3, <1>8, SentType
  <2>3. UpTo(Pages)'
    BY <1>5, <1>6, <2>2 DEF UpTo, Once
  <2> QED BY <1>4, <2>1, <2>3 DEF Collecting, Ended
<1>9. CASE ~cmd.all
  <2>1. cmd'.at = "none"
    BY <1>1, <1>3, <1>9, ContinueEffect
  <2> QED BY <1>4, <1>5, <1>9, <2>1 DEF Collecting, Ended
<1>10. (cmd.all /\ cursor # NoPage) \/ (cmd.all /\ cursor = NoPage) \/ ~cmd.all
  OBVIOUS
<1> QED BY <1>7, <1>8, <1>9, <1>10

\* A page that was answered to a cursor which had not been seen.
Adds(page, cursor) ==
  /\ page.at = cmd.next.at /\ page.snap = cmd.first.snap
  /\ ~Repeated(cmd.next) /\ Continue(page, cursor, cmd.first, cmd.seen \cup {cmd.next})

\* A page in order extends what is collected, or completes it; a cursor that goes
\* back leads astray.
LEMMA OnTrackNext ==
  ASSUME WholeInv, cmd.at = "more", NEW page \in Answered, NEW cursor \in Sent(page),
         Adds(page, cursor), NEW h \in 1..Pages, OnTrack(h)
  PROVE  Collecting' /\ Ended'
<1> USE ApiAssumption
<1>1. /\ TypeOK /\ cmd.start \in 1..Pages /\ h \in cmd.start..Pages /\ h < Pages /\ cmd.all
      /\ {p.at : p \in cmd.got} = cmd.start..h /\ Once
      /\ cmd.next = [snap |-> cmd.first.snap, at |-> h + 1]
      /\ CursorsOf(cmd.start + 1, h) \subseteq cmd.seen
      /\ cmd.start # 1 => CursorsOf(cmd.start, cmd.start) \subseteq cmd.seen
  BY DEF WholeInv, OnTrack, Reached, UpTo, TypeOK
<1>2. page.at = h + 1 /\ page.snap = cmd.first.snap
  BY <1>1 DEF Adds
<1>3. ~Taken(page)
  <2>1. \A p \in cmd.got : p.at \in cmd.start..h
    BY <1>1
  <2> QED BY <1>1, <1>2, <2>1 DEF Taken
<1>4. /\ cmd'.all = cmd.all /\ cmd'.start = cmd.start /\ cmd'.got = cmd.got \cup {page}
      /\ cmd'.first = cmd.first /\ cmd'.twice = cmd.twice
      /\ (cmd'.stray <=> cmd.stray \/ cursor # After(page))
  <2>1. TypeOK /\ Continue(page, cursor, cmd.first, cmd.seen \cup {cmd.next})
    BY DEF WholeInv, Adds
  <2>2. /\ cmd'.all = cmd.all /\ cmd'.start = cmd.start /\ cmd'.got = cmd.got \cup {page}
        /\ cmd'.first = cmd.first
        /\ cmd'.twice = IF Taken(page) THEN cmd.twice \cup {page.at} ELSE cmd.twice
    BY <2>1, ContinueEffect
  <2>3. cmd'.stray <=> cmd.stray \/ cursor # After(page)
    BY <2>1, ContinueEffect
  <2> QED BY <1>3, <2>2, <2>3
<1>5. UpTo(h + 1)'
  <2>1. {p.at : p \in cmd.got \cup {page}} = cmd.start..(h + 1)
    BY <1>1, <1>2
  <2> QED BY <1>1, <1>4, <2>1 DEF UpTo, Once
<1>6. CASE cursor = NoPage
  <2>1. cmd'.at = "none"
    BY <1>1, <1>6, ContinueEffect DEF Adds
  <2>2. h + 1 = Pages
    BY <1>2, <1>6, SentType
  <2> QED BY <1>5, <2>1, <2>2 DEF Collecting, Ended
<1>7. CASE cursor # NoPage
  <2>1. /\ cmd'.at = "more" /\ cmd'.end = "none" /\ cmd'.next = cursor
        /\ cmd'.seen = cmd.seen \cup {cmd.next}
    BY <1>1, <1>7, ContinueGoesOn DEF Adds
  <2>2. Reached(h + 1)'
    BY <1>1, <1>4, <2>1 DEF Reached, CursorsOf
  <2>3. CASE cursor = After(page)
    <3>1. h + 1 < Pages /\ cursor = [snap |-> cmd.first.snap, at |-> (h + 1) + 1]
      BY <1>1, <1>2, <1>7, <2>3, SentType
    <3>2. OnTrack(h + 1)'
      BY <1>4, <1>5, <2>1, <2>2, <3>1 DEF OnTrack
    <3> QED BY <1>1, <2>1, <3>1, <3>2 DEF Collecting, Ended
  <2>4. CASE cursor # After(page)
    <3>1. cursor \in Cursors /\ cursor.snap = page.snap /\ cursor.at <= page.at
      BY <2>4, SentType
    <3>2. cursor.at \in 1..(h + 1)
      BY <1>1, <1>2, <3>1 DEF Cursors
    <3>3. Astray(h + 1)'
      BY <1>2, <1>4, <1>5, <2>1, <2>2, <2>4, <3>1, <3>2 DEF Astray
    <3> QED BY <1>1, <2>1, <3>3 DEF Collecting, Ended
  <2> QED BY <2>3, <2>4
<1> QED BY <1>6, <1>7

\* A collection led astray stays so: the page it takes lies before its start, and
\* the cursor that follows at most at one it has seen; or it is the first page
\* again, from which it goes on or has ended.
LEMMA AstrayNext ==
  ASSUME WholeInv, cmd.at = "more", NEW page \in Answered, NEW cursor \in Sent(page),
         Adds(page, cursor), NEW h \in 1..Pages, Astray(h)
  PROVE  Collecting' /\ Ended'
<1> USE ApiAssumption
<1>1. /\ TypeOK /\ cmd.start \in 1..Pages /\ h \in cmd.start..Pages /\ cmd.all /\ cmd.stray
      /\ cmd.next.snap = cmd.first.snap /\ cmd.next.at \in 1..h /\ cmd.next \in Cursors
      /\ CursorsOf(cmd.start + 1, h) \subseteq cmd.seen
      /\ cmd.start # 1 => CursorsOf(cmd.start, cmd.start) \subseteq cmd.seen
      /\ cmd.start = 1 => {p.at : p \in cmd.got} = 1..h /\ Once
  BY DEF WholeInv, Astray, Reached, UpTo, TypeOK
<1>2. cmd.next \notin cmd.seen /\ page.at = cmd.next.at /\ page.snap = cmd.first.snap
  BY DEF Adds, Repeated
<1>3. cmd.next = [snap |-> cmd.first.snap, at |-> cmd.next.at]
  BY <1>1 DEF Cursors
<1>4. page.at \in 1..cmd.start /\ (cmd.start # 1 => page.at < cmd.start)
  BY <1>1, <1>2, <1>3 DEF CursorsOf
<1>5. /\ cmd'.all = cmd.all /\ cmd'.start = cmd.start /\ cmd'.got = cmd.got \cup {page}
      /\ cmd'.first = cmd.first /\ cmd'.twice \subseteq cmd.twice \cup {page.at} /\ cmd'.stray
  <2>1. TypeOK /\ Continue(page, cursor, cmd.first, cmd.seen \cup {cmd.next})
    BY DEF WholeInv, Adds
  <2>2. /\ cmd'.all = cmd.all /\ cmd'.start = cmd.start /\ cmd'.got = cmd.got \cup {page}
        /\ cmd'.first = cmd.first
        /\ cmd'.twice = IF Taken(page) THEN cmd.twice \cup {page.at} ELSE cmd.twice
    BY <2>1, ContinueEffect
  <2>3. cmd'.stray <=> cmd.stray \/ cursor # After(page)
    BY <2>1, ContinueEffect
  <2>4. cmd'.stray
    BY <1>1, <2>3
  <2> QED BY <2>2, <2>4
<1>6. cmd.start = 1 => UpTo(h)'
  <2> SUFFICES ASSUME cmd.start = 1 PROVE UpTo(h)'
    OBVIOUS
  <2>1. page.at = 1 /\ cmd.twice \subseteq {1}
    BY <1>1, <1>4 DEF Once
  <2>2. {p.at : p \in cmd.got \cup {page}} = 1..h
    BY <1>1, <2>1
  <2> QED BY <1>5, <2>1, <2>2 DEF UpTo, Once
<1>7. CASE cursor = NoPage
  <2>1. cmd'.at = "none" /\ page.at = Pages
    BY <1>1, <1>7, ContinueEffect, SentType DEF Adds
  <2>2. cmd.start = 1 /\ h = Pages
    BY <1>1, <1>4, <2>1
  <2> QED BY <1>6, <2>1, <2>2 DEF Collecting, Ended
<1>8. CASE cursor # NoPage
  <2>1. /\ cmd'.at = "more" /\ cmd'.end = "none" /\ cmd'.next = cursor
        /\ cmd'.seen = cmd.seen \cup {cmd.next}
    BY <1>1, <1>8, ContinueGoesOn DEF Adds
  <2>2. Reached(h)'
    BY <1>1, <1>5, <2>1 DEF Reached, CursorsOf
  <2>3. cursor \in Cursors /\ cursor.snap = cmd.first.snap /\ cursor.at \in 1..(page.at + 1)
    <3>1. CASE cursor = After(page)
      <4>1. page.at < Pages
        BY <1>1, <1>4, <1>8, <3>1, SentType
      <4> QED BY <1>2, <1>8, <3>1, <4>1, SentType DEF Answered, Cursors
    <3>2. CASE cursor # After(page)
      BY <1>2, <3>2, SentType DEF Answered, Cursors
    <3> QED BY <3>1, <3>2
  <2>4. CASE cursor.at \in 1..h
    <3>1. Astray(h)'
      BY <1>5, <1>6, <2>1, <2>2, <2>3, <2>4 DEF Astray
    <3> QED BY <2>1, <3>1 DEF Collecting, Ended
  <2>5. CASE cursor.at \notin 1..h
    <3>1. cmd.start = 1 /\ h = 1 /\ cursor.at = h + 1
      BY <1>1, <1>4, <2>3, <2>5
    <3>2. cursor = [snap |-> cmd.first.snap, at |-> h + 1] /\ h < Pages
      BY <2>3, <3>1 DEF Cursors
    <3>3. OnTrack(h)'
      BY <1>5, <1>6, <2>1, <2>2, <3>1, <3>2 DEF OnTrack
    <3> QED BY <2>1, <3>3 DEF Collecting, Ended
  <2> QED BY <2>4, <2>5
<1> QED BY <1>7, <1>8

\* A further page keeps what was collected whole, if it is of the same snapshot.
LEMMA NextPageWhole ==
  ASSUME WholeInv, NextPage, ~Refuses
  PROVE  Fresh' /\ Agree' /\ Collecting' /\ Ended'
<1>1. PICK page \in Answered : \E cursor \in Sent(page) :
        /\ page.at = cmd.next.at /\ ~Changed(page)
        /\ Continue(page, cursor, cmd.first, cmd.seen \cup {cmd.next})
  BY NextPageAdds DEF WholeInv
<1>2. PICK cursor \in Sent(page) :
        /\ page.at = cmd.next.at /\ ~Changed(page)
        /\ Continue(page, cursor, cmd.first, cmd.seen \cup {cmd.next})
  BY <1>1
<1>3. /\ Fresh' /\ Agree' /\ (OneSnapshot' => page.snap = cmd.first.snap)
      /\ (OneSnapshot' => OneSnapshot)
  BY <1>2, AddsPage DEF Changed
<1>4. ASSUME OneSnapshot' PROVE Collecting' /\ Ended'
  <2>1. PICK h \in 1..Pages : OnTrack(h) \/ Astray(h)
    BY <1>3, <1>4 DEF NextPage, WholeInv, Collecting
  <2>2. Adds(page, cursor)
    BY <1>2, <1>3, <1>4, NextPageAdds DEF Adds, WholeInv
  <2> QED BY <2>1, <2>2, OnTrackNext, AstrayNext DEF NextPage
<1> QED BY <1>3, <1>4 DEF Collecting, Ended

\* Nothing is collected before the first command.
LEMMA InitWhole == ApiInit => WholeInv
  BY InitType DEF ApiInit, NoCommand, NoAnswer, WholeInv, Fresh, Collecting, Agree, Ended

\* Every step keeps what was collected whole.
LEMMA NextWhole == WholeInv /\ [ApiNext]_apiVars => WholeInv'
<1> SUFFICES ASSUME WholeInv, [ApiNext]_apiVars
    PROVE    Fresh' /\ Agree' /\ Collecting' /\ Ended'
  BY NextType DEF WholeInv
<1>1. ASSUME NEW feature, Asks(feature) PROVE Fresh' /\ Agree' /\ Collecting' /\ Ended'
  <2>1. /\ cmd'.at = "capabilities" /\ cmd'.end = "none" /\ cmd'.got = {} /\ cmd'.twice = {}
        /\ ~cmd'.stray
    BY <1>1 DEF Asks, Command, NoCommand
  <2> QED BY <2>1 DEF Fresh, Agree, Collecting, Ended
<1>2. ASSUME NEW how, Ends(how) PROVE Fresh' /\ Agree' /\ Collecting' /\ Ended'
  <2>1. cmd'.at = "none" /\ cmd'.all = FALSE /\ cmd'.got = {}
    BY <1>2, EndsEffect
  <2> QED BY <2>1 DEF Fresh, Agree, Collecting, Ended
<1>3. CASE FromCache \/ FromServer
  <2>1. CASE \E how : Ends(how)
    BY <1>2, <2>1
  <2>2. CASE cmd' = [cmd EXCEPT !.at = "first"]
    <3>1. /\ cmd.at = "capabilities" /\ cmd.end = "none" /\ cmd.got = {} /\ cmd.twice = {}
          /\ ~cmd.stray
      BY <1>3 DEF FromCache, FromServer, WholeInv, Fresh, TypeOK
    <3>2. /\ cmd'.at = "first" /\ cmd'.end = "none" /\ cmd'.got = {} /\ cmd'.twice = {}
          /\ ~cmd'.stray
      BY <2>2, <3>1 DEF WholeInv, TypeOK
    <3> QED BY <3>2 DEF Fresh, Agree, Collecting, Ended
  <2> QED BY <1>3, <2>1, <2>2 DEF FromCache, FromServer, Check
<1>4. CASE RequestFails
  BY <1>2, <1>4 DEF RequestFails
<1>5. CASE FirstPage
  BY <1>5, FirstPageWhole
<1>6. CASE NextPage
  <2>1. CASE Refuses
    BY <1>2, <2>1 DEF Refuses
  <2> QED BY <1>6, <2>1, NextPageWhole
<1>7. CASE UNCHANGED cmd
  <2>1. /\ \A h \in 1..Pages : OnTrack(h)' <=> OnTrack(h)
        /\ \A h \in 1..Pages : Astray(h)' <=> Astray(h)
    BY <1>7 DEF OnTrack, Astray, Reached, UpTo, Once, CursorsOf
  <2>2. Collecting'
    BY <1>7, <2>1 DEF WholeInv, Collecting, OneSnapshot
  <2>3. Fresh' /\ Agree' /\ Ended'
    BY <1>7 DEF WholeInv, Fresh, Agree, Ended, OneSnapshot, UpTo, Once
  <2> QED BY <2>2, <2>3
<1>8. ServerAdvances \/ DataChange \/ UNCHANGED apiVars => UNCHANGED cmd
  BY DEF ServerAdvances, DataChange, apiVars
<1> QED BY <1>1, <1>3, <1>4, <1>5, <1>6, <1>7, <1>8 DEF ApiNext, Works

\* A collection that succeeds mixes no pages that name different snapshots, and one
\* that is of one snapshot is whole, for any number of pages and whichever earlier
\* cursors, newer snapshots and pages without a snapshot the server sends: only the
\* page asked for without a cursor can be there twice.
THEOREM CollectionsAreWhole == ApiSpec => []CollectionIsWhole
<1>1. WholeInv => CollectionIsWhole
  BY DEF WholeInv, Agree, Ended, UpTo, Once, CollectionIsWhole
<1> QED BY <1>1, InitWhole, NextWhole, PTL DEF ApiSpec

=============================================================================
