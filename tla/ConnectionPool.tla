--------------------------- MODULE ConnectionPool ---------------------------
(***************************************************************************)
(* SessionDialer's pool: the QUIC connection to one gateway that all HTTP  *)
(* and WebSocket requests of the client share, each on a stream of its     *)
(* own.  Every request is a task of the loopback proxy; the lock is held   *)
(* while a connection is dialled.  The repository has two copies of this   *)
(* class: the CLI's, which opens a stream or fails, and the vendored       *)
(* transport's, which evicts a connection that cannot open a stream and    *)
(* dials once more; the initial state says which of the two runs.  The      *)
(* actions here are composed with the proxy's in LoopbackProxy.            *)
(***************************************************************************)
EXTENDS Naturals, FiniteSets

CONSTANTS
  Requests,   \* requests under way at a time; each may be made again
  MaxConns    \* bound: connections that exist at a time (their numbers are reused)

ASSUME RequestsAssumption == IsFiniteSet(Requests)
ASSUME PoolAssumption == MaxConns \in Nat \ {0}

Conns == 1..MaxConns

VARIABLES
  redials, \* is this openagent_client_transport's copy? else openagent_cli's
  pool,    \* _connections for this gateway, 0 if it has none
  lock,    \* who holds _connections_lock: a set of at most one request
  req,     \* where each open_gateway_stream is, its connection, the one that failed
  ours,    \* connections we dialled and have not closed
  alive,   \* external: connections whose peer is still there
  closed   \* has the dialer been closed?

vars == <<redials, pool, lock, req, ours, alive, closed>>

Places == {"idle", "get", "dial", "open", "evict", "stream"}
NoRequest == [at |-> "idle", conn |-> 0, first |-> 0]

Init ==
  /\ redials \in BOOLEAN
  /\ pool = 0 /\ lock = {} /\ req = [r \in Requests |-> NoRequest]
  /\ ours = {} /\ alive = {} /\ closed = FALSE

Goto(r, place) == req' = [req EXCEPT ![r].at = place]

\* An exception ends the request.
Fails(r) == req' = [req EXCEPT ![r] = NoRequest]

-----------------------------------------------------------------------------
(* open_gateway_stream *)

\* A request arrives at the proxy.
Request(r) ==
  /\ req[r].at = "idle" /\ ~closed
  /\ req' = [req EXCEPT ![r] = [NoRequest EXCEPT !.at = "get"]]
  /\ UNCHANGED <<redials, pool, lock, ours, alive, closed>>

\* _get_or_open_connection: the pooled connection, whatever its health, or a
\* new one, dialled with the lock held.
GetPooled(r) ==
  /\ req[r].at = "get" /\ lock = {} /\ pool # 0
  /\ req' = [req EXCEPT ![r].at = "open", ![r].conn = pool]
  /\ UNCHANGED <<redials, pool, lock, ours, alive, closed>>

GetByDialling(r) ==
  /\ req[r].at = "get" /\ lock = {} /\ pool = 0
  /\ lock' = {r} /\ Goto(r, "dial")
  /\ UNCHANGED <<redials, pool, ours, alive, closed>>

\* A number that nobody refers to any more.
Free(c) == /\ c \notin ours /\ c # pool
           /\ \A r \in Requests : c \notin {req[r].conn, req[r].first}

Dialled(r) ==
  /\ req[r].at = "dial"
  /\ \E c \in Conns :
       /\ Free(c) /\ \A d \in 1..(c - 1) : ~Free(d)
       /\ pool' = c /\ ours' = ours \cup {c} /\ alive' = alive \cup {c}
       /\ req' = [req EXCEPT ![r].at = "open", ![r].conn = c]
  /\ lock' = {}
  /\ UNCHANGED <<redials, closed>>

DialFailed(r) ==
  /\ req[r].at = "dial"
  /\ lock' = {} /\ Fails(r)
  /\ UNCHANGED <<redials, pool, ours, alive, closed>>

\* open_bi, then the certificate in front of the stream; when writing it fails,
\* nothing is evicted.
StreamOpened(r) ==
  /\ req[r].at = "open" /\ req[r].conn \in alive
  /\ Goto(r, "stream")
  /\ UNCHANGED <<redials, pool, lock, ours, alive, closed>>

WriteFailed(r) ==
  /\ req[r].at = "open" /\ req[r].conn \in alive
  /\ Fails(r)
  /\ UNCHANGED <<redials, pool, lock, ours, alive, closed>>

\* The CLI's copy gives up; the transport's evicts.
OpenFailed(r) ==
  /\ req[r].at = "open"
  /\ IF redials THEN Goto(r, "evict") ELSE Fails(r)
  /\ UNCHANGED <<redials, pool, lock, ours, alive, closed>>

\* Mutants: whatever is cached is removed; nothing is.
EvictAny(r)  == 0
EvictNone(r) == pool

\* _evict_connection removes "only this exact cached object" and closes it.
Remaining(r) == IF pool = req[r].conn THEN 0 ELSE pool

\* Then the request is tried once more, or fails.
Evict(r) ==
  /\ req[r].at = "evict" /\ lock = {}
  /\ pool' = Remaining(r)
  /\ ours' = ours \ {req[r].conn} /\ alive' = alive \ {req[r].conn}
  /\ req' = IF req[r].first = 0
            THEN [req EXCEPT ![r] = [at |-> "get", conn |-> 0, first |-> req[r].conn]]
            ELSE [req EXCEPT ![r] = NoRequest]
  /\ UNCHANGED <<redials, lock, closed>>

\* SessionDialer.close, from disconnect(); requests under way are not stopped.
Close ==
  /\ ~closed /\ closed' = TRUE /\ lock = {}
  /\ ours' = ours \ {pool} /\ alive' = alive \ {pool} /\ pool' = 0
  /\ UNCHANGED <<redials, lock, req>>

\* The peer goes away: external.
ConnectionDies ==
  /\ \E c \in alive : alive' = alive \ {c}
  /\ UNCHANGED <<redials, pool, lock, req, ours, closed>>

Serve(r) == GetPooled(r) \/ GetByDialling(r) \/ Dialled(r) \/ DialFailed(r)
            \/ StreamOpened(r) \/ WriteFailed(r) \/ OpenFailed(r) \/ Evict(r)
-----------------------------------------------------------------------------
\* There is never a second connection to the gateway, nor one that the pool has
\* forgotten and nobody will close: eviction preserves "a concurrent replacement".
NothingOrphaned == ours \subseteq {pool}

\* The second attempt is made on another connection than the one that failed,
\* even when other requests evict and dial in between.
RetryUsesAnother ==
  \A r \in Requests : req[r].at = "open" => req[r].conn # req[r].first

\* "Skip the proactive check; let the next open_bi fail-and-retry path handle
\* it": while the dialer is in use and requests go on, a connection that has
\* died leaves the pool of the copy that redials; that of the CLI keeps it.
DeadConnectionLeaves ==
  \A c \in Conns : (redials /\ pool = c /\ c \notin alive)
                     ~> (pool # c \/ c \in alive \/ closed)

=============================================================================
