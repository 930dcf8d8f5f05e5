------------------------- MODULE CapabilityLink_proofs -------------------------
(***************************************************************************)
(* Proofs about the capability connection, for any bounds on connections   *)
(* and losses.                                                             *)
(***************************************************************************)
EXTENDS CapabilityLink, FiniteSetTheorems, TLAPS

Early  == {"init", "hostStart", "connect", "hostClose"}
Late   == {"closing", "joinCloser", "hostStop", "chatClose", "gone"}
Active == main \in Early \/ sup \in {"wait", "closing", "sleep", "connect"}

LinkType ==
  /\ main \in MainPlaces /\ host \in {"none", "starting", "held", "closed"}
  /\ stopping \in BOOLEAN /\ cancelled \in BOOLEAN /\ sup \in SupPlaces
  /\ dial \in [stage : {"idle", "status", "connecting", "hello", "failBridge", "failWs"},
               conn : 0..MaxConns]
  /\ closing \in [{"main", "sup"} -> {"idle", "gather", "bridge", "ws"}]
  /\ listener \in Task({"none", "running", "cancelled", "ended"})
  /\ heartbeat \in Task({"none", "running", "cancelled", "ended"})
  /\ closer \in Task({"none", "scheduled", "closing", "cancelled"})
  /\ capWs \in 0..MaxConns /\ capBridge \in 0..MaxConns
  /\ chat \in BOOLEAN /\ consent \in BOOLEAN
  /\ ws \in [Conns -> {"none", "open", "closing", "closed"}]
  /\ bridge \in [Conns -> {"none", "live", "closed"}]
  /\ lost \in SUBSET Conns /\ losses \in 0..MaxLosses

\* Who runs what: the supervisor exists once connect() is over and is joined before
\* the link is closed; each closes in its own place, and one of them dials.
Places ==
  /\ main \in Early => sup = "none"
  /\ main \in Late => sup \in {"none", "done"}
  /\ closing["main"] # "idle" => main = "closing"
  /\ closing["sup"] # "idle" => sup = "closing"
  /\ dial.stage # "idle" => main = "connect" \/ sup = "connect"
  /\ dial.conn # 0 <=> dial.stage \in {"hello", "failBridge", "failWs"}

\* One link: what the tasks serve is what is published, and who dials has none.
Served ==
  /\ capWs = capBridge
  /\ listener.st # "none" <=> heartbeat.st # "none"
  /\ Serving => capWs # 0 /\ listener.conn = capWs /\ heartbeat.conn = capWs
  /\ main \in Early \/ sup \in {"sleep", "connect"} \/ (sup = "wait" /\ ~Serving)
       => capWs = 0 /\ ~Serving
  /\ \A w \in {"main", "sup"} : closing[w] \in {"bridge", "ws"} => ~Serving

\* Sockets and bridges belong to the link that is published or dialled, unless the
\* dial was cut short.
Links ==
  /\ Active => \A c \in Conns : /\ ws[c] = "open" => c \in {capWs, dial.conn}
                                /\ bridge[c] = "live" => c \in {capBridge, dial.conn}
  /\ \A c, d \in Conns : bridge[c] = "live" /\ bridge[d] = "live" => c = d
  /\ \A c \in Conns : bridge[c] = "live" =>
       /\ \A w \in {"main", "sup"} : closing[w] = "ws" => c # capBridge
       /\ dial.stage = "failWs" => c # dial.conn

\* What disconnect() has stopped stays stopped.
Stopped ==
  /\ main \in {"joinCloser", "hostStop", "chatClose", "gone"} => ~Serving /\ capWs = 0
  /\ main \in {"hostStop", "chatClose", "gone"} => closer.st = "none"
  /\ main \in {"chatClose", "gone"} => host # "held"
  /\ main = "gone" => \A c \in Conns : ws[c] \in {"none", "closed"}

LinkInv == LinkType /\ Places /\ Served /\ Links /\ Stopped

-----------------------------------------------------------------------------
(* Types.                                                                   *)

\* A task is a record of its state and its connection.
LEMMA Tasks ==
  /\ \A S, x, c : x \in S /\ c \in 0..MaxConns => [st |-> x, conn |-> c] \in Task(S)
  /\ NoTask.st = "none" /\ NoTask.conn = 0
  /\ NoDial.stage = "idle" /\ NoDial.conn = 0
  /\ 0 \in 0..MaxConns /\ MaxConns \in Nat /\ MaxLosses \in Nat /\ 0 \notin Conns
  /\ Conns \subseteq 0..MaxConns
BY ConnsAssumption DEF Task, NoTask, NoDial, Conns

\* Every step keeps the types.
LEMMA TypeStep == ASSUME LinkType, [Next]_vars PROVE LinkType'
<1> USE Tasks DEF linkVars, envVars
<1>1. CASE Start
  <2>1. CASE StartUnavailable \/ StartHost \/ HostClosed
    BY <2>1 DEF StartUnavailable, StartHost, HostClosed, LinkType, MainPlaces
  <2>2. CASE HostStarted
    BY <2>2 DEF HostStarted, NoDial, LinkType, MainPlaces
  <2> QED BY <1>1, <2>1, <2>2 DEF Start
<1>2. CASE StartCancelled
  BY <1>2 DEF StartCancelled, NoDial, LinkType, MainPlaces, StopPlaces
<1>3. CASE DialStatus \/ DialFails
  BY <1>3 DEF DialStatus, DialFails, DialReturns, NoDial, LinkType, MainPlaces, SupPlaces,
         Dialling
<1>4. CASE DialConnected
  BY <1>4 DEF DialConnected, LinkType
<1>5. CASE DialAccepted
  BY <1>5 DEF DialAccepted, DialReturns, NoDial, LinkType, Task, MainPlaces, SupPlaces
<1>6. CASE DialRejected
  BY <1>6 DEF DialRejected, LinkType
<1>7. CASE DialCleanup
  BY <1>7 DEF DialCleanup, Dialling, DialReturns, NoDial, LinkType, MainPlaces, SupPlaces
<1>8. CASE SupWoken
  BY <1>8 DEF SupWoken, SupContinues, BeginClose, Cancel, LinkType, Task, SupPlaces
<1>9. CASE SupCloses
  BY <1>9 DEF SupCloses, SupContinues, CloseGather, CloseBridge, CloseWs, LinkType, Task,
         NoTask, SupPlaces
<1>10. CASE SupRetries
  BY <1>10 DEF SupRetries, NoDial, LinkType, SupPlaces
<1>11. CASE SupCancelled
  BY <1>11 DEF SupCancelled, NoDial, LinkType, SupPlaces
<1>12. CASE ListenerEnds \/ HeartbeatEnds
  BY <1>12 DEF ListenerEnds, HeartbeatEnds, LinkType, Task
<1>13. CASE CloserRuns \/ CloserDone
  BY <1>13 DEF CloserRuns, CloserDone, LinkType, Task, NoTask
<1>14. CASE Disconnect
  BY <1>14 DEF Disconnect, LinkType, MainPlaces, StopPlaces
<1>15. CASE StopBegins \/ StopJoinsSup
  <2>1. \A t \in Task({"none", "running", "cancelled", "ended"}) :
           Cancel(t) \in Task({"none", "running", "cancelled", "ended"})
    BY DEF Cancel, Task
  <2>2. CASE StopBegins
    <3>1. listener' \in Task({"none", "running", "cancelled", "ended"})
          /\ heartbeat' \in Task({"none", "running", "cancelled", "ended"})
      BY <2>1, <2>2 DEF StopBegins, BeginClose, LinkType
    <3>2. closing' \in [{"main", "sup"} -> {"idle", "gather", "bridge", "ws"}]
          /\ main' \in MainPlaces /\ cancelled' \in BOOLEAN /\ stopping' \in BOOLEAN
      BY <2>2 DEF StopBegins, BeginClose, LinkType, MainPlaces, StopPlaces
    <3> QED BY <2>2, <3>1, <3>2 DEF StopBegins, LinkType
  <2>3. CASE StopJoinsSup
    BY <2>1, <2>3 DEF StopJoinsSup, BeginClose, LinkType, MainPlaces, StopPlaces
  <2> QED BY <1>15, <2>2, <2>3
<1>16. CASE StopCloses
  BY <1>16 DEF StopCloses, CloseGather, CloseBridge, CloseWs, LinkType, Task, NoTask,
         MainPlaces, StopPlaces
<1>17. CASE StopJoinsCloser \/ StopHost
  BY <1>17 DEF StopJoinsCloser, StopHost, LinkType, MainPlaces, StopPlaces
<1>18. CASE CloseSession
  BY <1>18 DEF CloseSession, LinkType, MainPlaces
<1>19. CASE HostTransportLost
  <2>1. closer' \in Task({"none", "scheduled", "closing", "cancelled"})
    BY <1>19 DEF HostTransportLost, ScheduleClose, LinkType, Task
  <2>2. lost' \in SUBSET Conns /\ losses' \in 0..MaxLosses
    BY <1>19 DEF HostTransportLost, LinkType, Conns
  <2> QED BY <1>19, <2>1, <2>2 DEF HostTransportLost, LinkType
<1>20. CASE LinkDropped \/ ChatLost \/ ConsentChanges
  <2>1. CASE LinkDropped
    BY <2>1 DEF LinkDropped, LinkType
  <2>2. CASE ChatLost
    BY <2>2 DEF ChatLost, LinkType
  <2>3. CASE ConsentChanges
    BY <2>3 DEF ConsentChanges, LinkType
  <2> QED BY <1>20, <2>1, <2>2, <2>3
<1>21. CASE UNCHANGED vars
  BY <1>21 DEF vars, LinkType
<1> QED BY <1>1, <1>2, <1>3, <1>4, <1>5, <1>6, <1>7, <1>8, <1>9, <1>10, <1>11, <1>12, <1>13,
       <1>14, <1>15, <1>16, <1>17, <1>18, <1>19, <1>20, <1>21
   DEF Next, Dial, Supervise, Stop, Environment

\* Each task stays in its places.
LEMMA PlacesStep == ASSUME LinkType, Places, [Next]_vars PROVE Places'
<1> USE Tasks DEF linkVars, envVars
<1>1. CASE Start
  BY <1>1 DEF Start, StartUnavailable, StartHost, HostStarted, HostClosed, NoDial, Places,
         Early
<1>2. CASE StartCancelled
  BY <1>2 DEF StartCancelled, Places, Early
<1>3. CASE DialStatus \/ DialFails
  BY <1>3 DEF DialStatus, DialFails, Dialling, DialReturns, LinkType, Places, Early, Late
<1>4. CASE DialConnected
  BY <1>4 DEF DialConnected, Dialling, Places
<1>5. CASE DialAccepted
  BY <1>5 DEF DialAccepted, Dialling, DialReturns, Places, Early, Late
<1>6. CASE DialRejected
  BY <1>6 DEF DialRejected, Dialling, Places
<1>7. CASE DialCleanup
  BY <1>7 DEF DialCleanup, Dialling, DialReturns, LinkType, Places, Early
<1>8. CASE SupWoken
  BY <1>8 DEF SupWoken, SupRuns, BeginClose, LinkType, Places
<1>9. CASE SupCloses
  BY <1>9 DEF SupCloses, CloseGather, CloseBridge, CloseWs, LinkType, Places
<1>10. CASE SupRetries
  BY <1>10 DEF SupRetries, SupRuns, Places
<1>11. CASE SupCancelled
  BY <1>11 DEF SupCancelled, LinkType, Places
<1>12. CASE ListenerEnds \/ HeartbeatEnds
  BY <1>12 DEF ListenerEnds, HeartbeatEnds, Places
<1>13. CASE CloserRuns \/ CloserDone
  BY <1>13 DEF CloserRuns, CloserDone, Places
<1>14. CASE Disconnect
  BY <1>14 DEF Disconnect, Places, Early, Late
<1>15. CASE StopBegins \/ StopJoinsSup
  BY <1>15 DEF StopBegins, StopJoinsSup, BeginClose, LinkType, Places, Early, Late
<1>16. CASE StopCloses
  BY <1>16 DEF StopCloses, CloseGather, CloseBridge, CloseWs, LinkType, Places, Early, Late
<1>17. CASE StopJoinsCloser \/ StopHost
  BY <1>17 DEF StopJoinsCloser, StopHost, Places, Early, Late
<1>18. CASE CloseSession
  BY <1>18 DEF CloseSession, Places, Early, Late
<1>19. CASE HostTransportLost
  BY <1>19 DEF HostTransportLost, Places
<1>20. CASE LinkDropped \/ ChatLost \/ ConsentChanges
  BY <1>20 DEF LinkDropped, ChatLost, ConsentChanges, Places
<1>21. CASE UNCHANGED vars
  BY <1>21 DEF vars, Places
<1> QED BY <1>1, <1>2, <1>3, <1>4, <1>5, <1>6, <1>7, <1>8, <1>9, <1>10, <1>11, <1>12, <1>13,
       <1>14, <1>15, <1>16, <1>17, <1>18, <1>19, <1>20, <1>21
   DEF Next, Dial, Supervise, Stop, Environment

\* The tasks serve what is published.
LEMMA ServedStep == ASSUME LinkType, Places, Served, [Next]_vars PROVE Served'
<1> USE Tasks DEF linkVars, envVars
<1>1. CASE Start
  BY <1>1 DEF Start, StartUnavailable, StartHost, HostStarted, HostClosed, Served, Serving,
         Early
<1>2. CASE StartCancelled
  BY <1>2 DEF StartCancelled, Served, Serving, Early
<1>3. CASE DialStatus \/ DialFails
  BY <1>3 DEF DialStatus, DialFails, Dialling, Served, Serving, Early
<1>4. CASE DialConnected
  BY <1>4 DEF DialConnected, Served, Serving
<1>5. CASE DialAccepted
  BY <1>5 DEF DialAccepted, Dialling, DialReturns, Places, Served, Serving, Early, Late
<1>6. CASE DialRejected
  BY <1>6 DEF DialRejected, Served, Serving
<1>7. CASE DialCleanup
  BY <1>7 DEF DialCleanup, Dialling, Served, Serving, Early
<1>8. CASE SupWoken
  BY <1>8 DEF SupWoken, SupRuns, BeginClose, Cancel, LinkType, Served, Serving, Task
<1>9. CASE SupCloses
  BY <1>9 DEF SupCloses, CloseGather, CloseBridge, CloseWs, Places, Served, Serving
<1>10. CASE SupRetries
  BY <1>10 DEF SupRetries, SupRuns, Served, Serving
<1>11. CASE SupCancelled
  BY <1>11 DEF SupCancelled, Served, Serving
<1>12. CASE ListenerEnds \/ HeartbeatEnds
  BY <1>12 DEF ListenerEnds, HeartbeatEnds, LinkType, Served, Serving, Task
<1>13. CASE CloserRuns \/ CloserDone
  BY <1>13 DEF CloserRuns, CloserDone, Served, Serving
<1>14. CASE Disconnect
  BY <1>14 DEF Disconnect, Served, Serving, Early
<1>15. CASE StopBegins \/ StopJoinsSup
  BY <1>15 DEF StopBegins, StopJoinsSup, BeginClose, Cancel, LinkType, Served, Serving,
         Task, Early
<1>16. CASE StopCloses
  BY <1>16 DEF StopCloses, CloseGather, CloseBridge, CloseWs, Places, Served, Serving, Late
<1>17. CASE StopJoinsCloser \/ StopHost
  BY <1>17 DEF StopJoinsCloser, StopHost, Served, Serving, Early
<1>18. CASE CloseSession
  BY <1>18 DEF CloseSession, Served, Serving, Early
<1>19. CASE HostTransportLost
  BY <1>19 DEF HostTransportLost, Served, Serving
<1>20. CASE LinkDropped \/ ChatLost \/ ConsentChanges
  BY <1>20 DEF LinkDropped, ChatLost, ConsentChanges, Served, Serving
<1>21. CASE UNCHANGED vars
  BY <1>21 DEF vars, Served, Serving
<1> QED BY <1>1, <1>2, <1>3, <1>4, <1>5, <1>6, <1>7, <1>8, <1>9, <1>10, <1>11, <1>12, <1>13,
       <1>14, <1>15, <1>16, <1>17, <1>18, <1>19, <1>20, <1>21
   DEF Next, Dial, Supervise, Stop, Environment

\* What is open or live belongs to the link, or was cut short.
LEMMA LinksStep == ASSUME LinkType, Places, Served, Links, [Next]_vars PROVE Links'
<1> USE Tasks DEF linkVars, envVars
<1>1. CASE Start
  BY <1>1 DEF Start, StartUnavailable, StartHost, HostStarted, HostClosed, Places, Served,
         Links, Active, Early
<1>2. CASE StartCancelled
  BY <1>2 DEF StartCancelled, Places, Links, Active, Early
<1>3. CASE DialStatus \/ DialFails
  BY <1>3 DEF DialStatus, DialFails, Dialling, Places, Served, Links, Active, Early
<1>4. CASE DialConnected
  BY <1>4 DEF DialConnected, Dialling, Places, Served, Links, Active, Early
<1>5. CASE DialAccepted
  BY <1>5 DEF DialAccepted, Dialling, DialReturns, Places, Served, Links, Active, Early,
         Late
<1>6. CASE DialRejected
  BY <1>6 DEF DialRejected, Links, Active
<1>7. CASE DialCleanup
  BY <1>7 DEF DialCleanup, Dialling, DialReturns, LinkType, Links, Active, Early
<1>8. CASE SupWoken
  BY <1>8 DEF SupWoken, SupRuns, BeginClose, LinkType, Links, Active
<1>9. CASE SupCloses
  BY <1>9 DEF SupCloses, CloseGather, CloseBridge, CloseWs, LinkType, Places, Links, Active
<1>10. CASE SupRetries
  BY <1>10 DEF SupRetries, SupRuns, Places, Links, Active, Early
<1>11. CASE SupCancelled
  BY <1>11 DEF SupCancelled, Places, Links, Active
<1>12. CASE ListenerEnds \/ HeartbeatEnds
  BY <1>12 DEF ListenerEnds, HeartbeatEnds, Links, Active
<1>13. CASE CloserRuns \/ CloserDone
  BY <1>13 DEF CloserRuns, CloserDone, LinkType, Links, Active
<1>14. CASE Disconnect
  BY <1>14 DEF Disconnect, Links, Active, Early
<1>15. CASE StopBegins \/ StopJoinsSup
  BY <1>15 DEF StopBegins, StopJoinsSup, BeginClose, LinkType, Links, Active, Early
<1>16. CASE StopCloses
  BY <1>16 DEF StopCloses, CloseGather, CloseBridge, CloseWs, LinkType, Links, Active, Early
<1>17. CASE StopJoinsCloser \/ StopHost
  BY <1>17 DEF StopJoinsCloser, StopHost, Links, Active, Early
<1>18. CASE CloseSession
  BY <1>18 DEF CloseSession, Links, Active, Early
<1>19. CASE HostTransportLost
  BY <1>19 DEF HostTransportLost, Links, Active
<1>20. CASE LinkDropped \/ ChatLost \/ ConsentChanges
  BY <1>20 DEF LinkDropped, ChatLost, ConsentChanges, LinkType, Links, Active
<1>21. CASE UNCHANGED vars
  BY <1>21 DEF vars, Links, Active
<1> QED BY <1>1, <1>2, <1>3, <1>4, <1>5, <1>6, <1>7, <1>8, <1>9, <1>10, <1>11, <1>12, <1>13,
       <1>14, <1>15, <1>16, <1>17, <1>18, <1>19, <1>20, <1>21
   DEF Next, Dial, Supervise, Stop, Environment

\* Nothing starts again after disconnect().
LEMMA StoppedStep == ASSUME LinkType, Places, Served, Stopped, [Next]_vars PROVE Stopped'
<1> USE Tasks DEF linkVars, envVars
<1>1. CASE Start
  BY <1>1 DEF Start, StartUnavailable, StartHost, HostStarted, HostClosed, Stopped
<1>2. CASE StartCancelled
  BY <1>2 DEF StartCancelled, Stopped
<1>3. CASE DialStatus \/ DialFails
  BY <1>3 DEF DialStatus, DialFails, DialReturns, Stopped, Serving
<1>4. CASE DialConnected
  BY <1>4 DEF DialConnected, Dialling, Places, Stopped, Late
<1>5. CASE DialAccepted
  BY <1>5 DEF DialAccepted, Dialling, DialReturns, Places, Stopped, Late
<1>6. CASE DialRejected
  BY <1>6 DEF DialRejected, Stopped, Serving
<1>7. CASE DialCleanup
  BY <1>7 DEF DialCleanup, DialReturns, LinkType, Stopped, Serving
<1>8. CASE SupWoken
  BY <1>8 DEF SupWoken, Stopped, Serving
<1>9. CASE SupCloses
  BY <1>9 DEF SupCloses, CloseGather, CloseBridge, CloseWs, Stopped, Serving
<1>10. CASE SupRetries
  BY <1>10 DEF SupRetries, Stopped, Serving
<1>11. CASE SupCancelled
  BY <1>11 DEF SupCancelled, Stopped, Serving
<1>12. CASE ListenerEnds \/ HeartbeatEnds
  BY <1>12 DEF ListenerEnds, HeartbeatEnds, Stopped, Serving
<1>13. CASE CloserRuns \/ CloserDone
  BY <1>13 DEF CloserRuns, CloserDone, Stopped, Serving
<1>14. CASE Disconnect
  BY <1>14 DEF Disconnect, Stopped
<1>15. CASE StopBegins \/ StopJoinsSup
  BY <1>15 DEF StopBegins, StopJoinsSup, Stopped
<1>16. CASE StopCloses
  BY <1>16 DEF StopCloses, CloseGather, CloseBridge, CloseWs, Served, Stopped, Serving
<1>17. CASE StopJoinsCloser \/ StopHost
  BY <1>17 DEF StopJoinsCloser, StopHost, Stopped, Serving
<1>18. CASE CloseSession
  BY <1>18 DEF CloseSession, Stopped, Serving
<1>19. CASE HostTransportLost
  BY <1>19 DEF HostTransportLost, Served, Stopped
<1>20. CASE LinkDropped \/ ChatLost \/ ConsentChanges
  BY <1>20 DEF LinkDropped, ChatLost, ConsentChanges, Stopped, Serving
<1>21. CASE UNCHANGED vars
  BY <1>21 DEF vars, Stopped, Serving
<1> QED BY <1>1, <1>2, <1>3, <1>4, <1>5, <1>6, <1>7, <1>8, <1>9, <1>10, <1>11, <1>12, <1>13,
       <1>14, <1>15, <1>16, <1>17, <1>18, <1>19, <1>20, <1>21
   DEF Next, Dial, Supervise, Stop, Environment

-----------------------------------------------------------------------------
(* The theorems.                                                            *)

\* Nothing is linked before connect() has begun.
LEMMA LinkInit == Init => LinkInv
<1> SUFFICES ASSUME Init PROVE LinkInv
  OBVIOUS
<1> USE Tasks DEF Init
<1>1. LinkType
  <2>1. /\ NoTask \in Task({"none", "running", "cancelled", "ended"})
        /\ NoTask \in Task({"none", "scheduled", "closing", "cancelled"})
    BY DEF Task, NoTask
  <2>2. NoDial \in [stage : {"idle", "status", "connecting", "hello", "failBridge", "failWs"},
                    conn : 0..MaxConns]
    BY DEF NoDial
  <2>3. closing \in [{"main", "sup"} -> {"idle", "gather", "bridge", "ws"}]
        /\ ws \in [Conns -> {"none", "open", "closing", "closed"}]
        /\ bridge \in [Conns -> {"none", "live", "closed"}]
    OBVIOUS
  <2>4. lost \in SUBSET Conns /\ losses \in 0..MaxLosses /\ consent \in BOOLEAN
    OBVIOUS
  <2>5. main \in MainPlaces /\ sup \in SupPlaces
    BY DEF MainPlaces, SupPlaces
  <2> QED BY <2>1, <2>2, <2>3, <2>4, <2>5 DEF LinkType
<1>2. Places
  BY DEF Places, NoDial, Early, Late
<1>3. Served
  BY DEF Served, Serving, NoTask, Early
<1>4. Links /\ Stopped
  BY DEF Links, Stopped, NoDial
<1> QED BY <1>1, <1>2, <1>3, <1>4 DEF LinkInv

\* Every step keeps all of it.
LEMMA LinkNext == LinkInv /\ [Next]_vars => LinkInv'
BY TypeStep, PlacesStep, ServedStep, LinksStep, StoppedStep DEF LinkInv

\* The gateway never has two open links of this client: who dials finds the link
\* before closed and its tasks joined, the tasks serve what is published, and one
\* caller at a time closes it.
THEOREM LinkIsAlwaysOwned == Spec => []LinkIsOwned
<1>1. LinkInv => LinkIsOwned
  <2> SUFFICES ASSUME LinkInv PROVE LinkIsOwned
    OBVIOUS
  <2>1. ASSUME dial.conn # 0
        PROVE  capWs = 0 /\ capBridge = 0 /\ ~Serving
               /\ \A c \in Conns : ws[c] = "open" => c = dial.conn
    <3>1. main = "connect" \/ sup = "connect"
      BY <2>1 DEF LinkInv, LinkType, Places
    <3>2. capWs = 0 /\ ~Serving /\ capBridge = 0
      BY <3>1 DEF LinkInv, Served, Early
    <3>3. Active
      BY <3>1 DEF Active, Early
    <3> QED BY <3>2, <3>3, Tasks DEF LinkInv, Links
  <2>2. capWs = capBridge /\ (Serving => listener.conn = capWs /\ heartbeat.conn = capWs)
    BY DEF LinkInv, Served
  <2>3. closing["main"] = "idle" \/ closing["sup"] = "idle"
    BY DEF LinkInv, Places, Late
  <2> QED BY <2>1, <2>2, <2>3 DEF LinkIsOwned
<1> QED BY <1>1, LinkInit, LinkNext, PTL DEF Spec

\* Once disconnect() is over no task of the link runs, no socket is open, the host
\* is closed, and no more than one bridge is left: that of a handshake cut short.
THEOREM DisconnectIsQuiet == Spec => []QuietAfterDisconnect
<1>1. LinkInv => QuietAfterDisconnect
  <2> SUFFICES ASSUME LinkInv, main = "gone"
               PROVE  /\ sup \in {"none", "done"} /\ ~Serving /\ closer.st = "none"
                      /\ dial = NoDial /\ host # "held"
                      /\ \A c \in Conns : ws[c] \in {"none", "closed"}
                      /\ Cardinality({c \in Conns : bridge[c] = "live"}) <= 1
    BY DEF QuietAfterDisconnect
  <2>1. sup \in {"none", "done"}
    BY DEF LinkInv, Places, Late
  <2>2. dial.stage = "idle" /\ dial.conn = 0
    BY <2>1 DEF LinkInv, Places, Late
  <2>3. dial = NoDial
    BY <2>2 DEF LinkInv, LinkType, NoDial
  <2>4. ~Serving /\ closer.st = "none" /\ host # "held"
        /\ \A c \in Conns : ws[c] \in {"none", "closed"}
    BY DEF LinkInv, Stopped
  <2> DEFINE live == {c \in Conns : bridge[c] = "live"}
  <2>5. Cardinality(live) <= 1
    <3>1. live = {} \/ \E x \in live : live = {x}
      BY DEF LinkInv, Links
    <3> QED BY <3>1, FS_EmptySet, FS_Singleton
  <2> QED BY <2>1, <2>3, <2>4, <2>5
<1> QED BY <1>1, LinkInit, LinkNext, PTL DEF Spec

=============================================================================
